---------------------------- MODULE Spec2Model ----------------------------
(***************************************************************************)
(* The /convert request pipeline of the GIF converter back end             *)
(* (src/backend/server.js and its sibling variants): multer stages the     *)
(* upload, the handler validates the time window, extracts the audio,      *)
(* transcribes it (tolerantly), renders the GIF, deletes the temporary     *)
(* files and answers.                                                      *)
(*                                                                         *)
(* Node runs one handler segment (the code between two awaits) to          *)
(* completion before any other callback runs, so one action is one such    *)
(* segment; requests interleave only at their awaits.                      *)
(*                                                                         *)
(* Spec follows one request through any of the servers, SpecConc two       *)
(* concurrent requests through a fluent-ffmpeg server, SpecLive one        *)
(* request with the callbacks the run-time delivers, and SpecWrap applies  *)
(* the caption wrapping of the Cloudinary createGIF to every caption.      *)
(* SpecRun makes the transcript of every recognition answer and renders    *)
(* it repeatedly; SpecRoute sends every HTTP request through the handlers  *)
(* of a server in the order of their registration.                         *)
(***************************************************************************)
EXTENDS Integers, Sequences, FiniteSets, TLC

(***************************************************************************)
(* Bounds of the model.                                                    *)
(***************************************************************************)
NumReq == 2        \* requests the server receives
MaxClock == 1      \* Date.now() takes the values 0..MaxClock
MaxWords == 4      \* a caption has at most MaxWords space-separated pieces

Requests == 1..NumReq
Solo == {1}        \* the request followed by the one-request specification
Clock == 0..MaxClock

(***************************************************************************)
(* Form fields.  multer hands every multipart field to the handler as a    *)
(* string; a string is modelled as its sequence of UTF-16 code units, and  *)
(* a field the client did not send is undefined.                           *)
(***************************************************************************)
Str(chars) == [present |-> TRUE, chars |-> chars]
Undefined == [present |-> FALSE, chars |-> <<>>]

Minus == 45        \* "-"
Dot == 46          \* "."
Zero == 48         \* "0"
D(n) == Zero + n   \* the code unit of the decimal digit n

\* JavaScript truthiness of a field: undefined and "" are falsy, every
\* other string (also "0") is truthy.
Truthy(f) == f.present /\ f.chars # <<>>

\* a < b for two strings: JavaScript compares them code unit by code unit.
RECURSIVE StrLess(_, _)
StrLess(a, b) ==
  IF b = <<>> THEN FALSE
  ELSE IF a = <<>> THEN TRUE
  ELSE IF Head(a) < Head(b) THEN TRUE
  ELSE IF Head(a) > Head(b) THEN FALSE
  ELSE StrLess(Tail(a), Tail(b))

\* a <= b for two strings is !(b < a).
StrLessEq(a, b) == ~StrLess(b, a)

\* The value of a digit sequence.
RECURSIVE DigitsVal(_)
DigitsVal(ds) ==
  IF ds = <<>> THEN 0
  ELSE 10 * DigitsVal(SubSeq(ds, 1, Len(ds) - 1)) + (ds[Len(ds)] - Zero)

DotPos(s) ==
  IF \E i \in 1..Len(s) : s[i] = Dot
  THEN CHOOSE i \in 1..Len(s) : s[i] = Dot /\ \A j \in 1..(i - 1) : s[j] # Dot
  ELSE 0

\* The first two fraction digits, in hundredths.
Hundredths(fr) ==
  IF Len(fr) = 0 THEN 0
  ELSE IF Len(fr) = 1 THEN 10 * (fr[1] - Zero)
  ELSE 10 * (fr[1] - Zero) + (fr[2] - Zero)

UnsignedCs(s) ==
  IF DotPos(s) = 0 THEN 100 * DigitsVal(s)
  ELSE 100 * DigitsVal(SubSeq(s, 1, DotPos(s) - 1))
         + Hundredths(SubSeq(s, DotPos(s) + 1, Len(s)))

\* ToNumber of a decimal string, in centiseconds (the subtraction
\* endTime - startTime converts both strings to numbers).
ToNumber(s) ==
  IF s = <<>> THEN 0
  ELSE IF Head(s) = Minus THEN 0 - UnsignedCs(Tail(s))
  ELSE UnsignedCs(s)

\* A JavaScript number: NaN, or a value in centiseconds.
NaN == [nan |-> TRUE, val |-> 0]
Num(v) == [nan |-> FALSE, val |-> v]

\* The number of code units from position i on that continue a decimal
\* literal (digits with at most one dot).
RECURSIVE PrefixLen(_, _, _)
PrefixLen(s, i, seenDot) ==
  IF i > Len(s) THEN 0
  ELSE IF s[i] >= Zero /\ s[i] <= Zero + 9 THEN 1 + PrefixLen(s, i + 1, seenDot)
  ELSE IF s[i] = Dot /\ ~seenDot THEN 1 + PrefixLen(s, i + 1, TRUE)
  ELSE 0

\* parseFloat(field): the longest leading decimal literal, NaN when there
\* is none (also for undefined and for "").
parseFloat(f) ==
  IF ~f.present THEN NaN
  ELSE LET neg == f.chars # <<>> /\ Head(f.chars) = Minus
           body == IF neg THEN Tail(f.chars) ELSE f.chars
           lit == SubSeq(body, 1, PrefixLen(body, 1, FALSE))
       IN  IF \A k \in 1..Len(lit) : lit[k] = Dot THEN NaN
           ELSE Num((IF neg THEN -1 ELSE 1) * UnsignedCs(lit))

\* x || 0 on a number: NaN and 0 are falsy.
OrZero(x) == IF x.nan \/ x.val = 0 THEN Num(0) ELSE x

\* The time strings the requests carry: "", "0", "5", "9", "10", "2.5"
\* and "-1".
TimeStrings ==
  { <<>>, <<D(0)>>, <<D(5)>>, <<D(9)>>, <<D(1), D(0)>>, <<D(2), Dot, D(5)>>,
    <<Minus, D(1)>> }

TimeFields == {Undefined} \cup {Str(s) : s \in TimeStrings}

(***************************************************************************)
(* The scratch areas /tmp/uploads and /tmp/output.  A file name is its     *)
(* kind and the number that makes it: multer's random name for a staged    *)
(* upload (one per request), Date.now() for output_, audio_ and temp_.     *)
(***************************************************************************)
Name(kind, id) == [kind |-> kind, id |-> id]
NoName == [kind |-> "none", id |-> 0]

FileNames ==
  {Name("upload", r) : r \in Requests}
    \cup {Name(k, t) : k \in {"output", "audio", "temp"}, t \in Clock}

\* creator: the request whose call wrote the file; size: 0 (empty) or 1.
NoFile == [exists |-> FALSE, creator |-> 0, size |-> 0]
File(r, size) == [exists |-> TRUE, creator |-> r, size |-> size]

existsSync(fs, n) == n # NoName /\ fs[n].exists

\* The asynchronous stages of a request.  "extract", "render" and "overlay"
\* are the ffmpeg runs of the file-based servers; "upload" is
\* uploadToCloudinary of the Cloudinary server, whose "render" is the
\* synchronous URL construction of its createGIF.
Stages == {"upload", "extract", "transcribe", "render", "overlay"}

VARIABLES
  variant,   \* which server file runs: "cjs" (two-pass, local ffmpeg),
             \* "esm" (createGIF, local ffmpeg), "wasm" (createGIF,
             \* WebAssembly ffmpeg), "cloud" (Cloudinary with retries) or
             \* "simple" (Cloudinary, upload.single as route middleware)
  development, \* process.env.NODE_ENV === 'development'
  speechClient, \* Cloudinary server: the speech client was initialised
  now,       \* Date.now()
  files,     \* the scratch areas: file name -> file
  pc,        \* per request: the await the handler is suspended at
  req,       \* per request: req.file and req.body
  loc,       \* per request: the handler's local variables
  resp,      \* per request: the response sent, if any
  h,         \* per request: what has happened to it (history)
  cap,       \* the caption createGIF of part_002 wraps, and its lines
  run,       \* a recognition answer, the transcript made of it and the
             \* render descriptions createGIF builds for it
  route,     \* an HTTP request on its way through the registered handlers
  engine,    \* WebAssembly server: the shared FFmpeg instance's files and
             \* each request's position in extractAudio and createGIF
  ui         \* the page: VideoGifConverter's and VideoTrimmer's state and
             \* the conversion requests the page has in flight

vars ==
  <<variant, development, speechClient, now, files, pc, req, loc, resp, h,
    cap, run, route, engine, ui>>


\* The servers.  The handler of each is modelled for the requests that are
\* dispatched to it; which requests those are is the matter of Handlers
\* and dispatch.
Variants == {"cjs", "esm", "wasm", "cloud", "simple"}
FileVariants == {"cjs", "esm", "wasm"}       \* work on files under /tmp
CloudVariants == {"cloud", "simple"}         \* work on Cloudinary URLs
\* The servers whose ffmpeg runs are separate processes per request (the
\* concurrent workload is run against these).
ConcVariants == {"cjs", "esm"}

\* req.file.size of an uploaded video.
FileSizes == {1, 2}

\* getTranscription(videoUrl, startTime, duration, retries = 2)
Retries == 2

(***************************************************************************)
(* Values of the handler.                                                  *)
(***************************************************************************)
\* let transcription = null, or the string transcribeAudio returned.
Null == [null |-> TRUE, text |-> ""]
Text(s) == [null |-> FALSE, text |-> s]

\* if (transcription): null and "" are falsy.
TruthyText(t) == ~t.null /\ t.text # ""

\* The metadata object of a response; NoMeta: the response has none.
NoMeta ==
  [present |-> FALSE, duration |-> 0, startTime |-> 0, endTime |-> 0,
   originalSize |-> 0]
Meta(duration, startTime, endTime, size) ==
  [present |-> TRUE, duration |-> duration, startTime |-> startTime,
   endTime |-> endTime, originalSize |-> size]

\* sends: how many times the handler has written a response; detail: the
\* message of the error the handler caught, as far as the body carries it
\* ("" when it carries none).
NoResp ==
  [sent |-> FALSE, sends |-> 0, status |-> 0, gifUrl |-> NoName,
   transcription |-> Null, message |-> "", metadata |-> NoMeta,
   detail |-> ""]

\* startTime, endTime, duration: the handler's constants, as numbers in
\* centiseconds (the file-based servers hand the strings to ffmpeg, which
\* reads them as these numbers).
NoLoc ==
  [tempFilePath |-> NoName, outputAudioPath |-> NoName,
   outputFilename |-> NoName, tempGifPath |-> NoName, startTime |-> 0,
   endTime |-> 0, duration |-> 0, transcription |-> Null, i |-> 0]

\* err: the error multer passed to the upload callback (Cloudinary server);
\* includeSubtitles: req.body.includeSubtitles === 'true'; youtubeUrl: the
\* form carries the field youtubeUrl with the address of a video (the UI
\* appends it when no file is selected).
NoReq ==
  [file |-> FALSE, size |-> 0, startTime |-> Undefined, endTime |-> Undefined,
   err |-> FALSE, includeSubtitles |-> FALSE, youtubeUrl |-> FALSE]

\* running: stages called and not yet settled; invoked: stages ever called;
\* ok / failed: how they settled; resolved: the transcription try/catch has
\* been left; unlinkThrew: an unlinkSync of this request threw; thrown:
\* the error the handler's outer catch received ("" when none); foreign:
\* the files of other requests this request overwrote, renamed or deleted;
\* audio: what the check of the extracted audio file found ("" before it);
\* args: the start time and duration each stage was called with; late: a
\* stage was called after the response had been sent; overlay: the render
\* was given a text to draw (the drawtext filter, the overlay
\* transformation, or the second pass of the two-pass variant); renamed:
\* the two-pass variant renamed the temporary GIF to the output; waits:
\* the delays of the setTimeout calls of getTranscription, in ms; promise:
\* the promise uploadToCloudinary returned; callback: the callback given
\* to upload_stream; timer: the uploadTimeout timer of part_002; settles:
\* how many resolve / reject calls changed the promise.
NoArgs == [called |-> FALSE, start |-> 0, duration |-> 0]
Args(start, duration) == [called |-> TRUE, start |-> start, duration |-> duration]

NoHist ==
  [running |-> {}, invoked |-> {}, ok |-> {}, failed |-> {},
   resolved |-> FALSE, unlinkThrew |-> FALSE, thrown |-> "", foreign |-> {},
   audio |-> "", args |-> [s \in Stages |-> NoArgs], late |-> FALSE,
   overlay |-> FALSE, renamed |-> FALSE, waits |-> <<>>,
   promise |-> "none", callback |-> "none", timer |-> "none", settles |-> 0]

\* The inputs of a request: with or without a video part, any two fields.
AllInputs ==
  [file : BOOLEAN, startTime : TimeFields, endTime : TimeFields]

\* The inputs of the concurrent workload: videos with the window 0..5, 
\* one request without a video and one with the empty window 5..5.
ConcInputs ==
  { [file |-> TRUE, startTime |-> Str(<<D(0)>>), endTime |-> Str(<<D(5)>>)],
    [file |-> FALSE, startTime |-> Str(<<D(0)>>), endTime |-> Str(<<D(5)>>)],
    [file |-> TRUE, startTime |-> Str(<<D(5)>>), endTime |-> Str(<<D(5)>>)] }

\* The kinds of file whose unlinkSync can throw in one handler segment.
UnlinkFaults == SUBSET {"upload", "audio", "temp"}

(***************************************************************************)
(* A handler segment works on the context of its request: the file        *)
(* system and the request's own pc, locals, response and history.          *)
(***************************************************************************)
Ctx(r) ==
  [fs |-> files, pc |-> pc[r], resp |-> resp[r], loc |-> loc[r], h |-> h[r]]

\* The files of other requests that the segment ending in c changed.
ForeignTouched(r, c) ==
  {n \in FileNames :
     files[n].exists /\ files[n].creator # r /\ c.fs[n] # files[n]}

Commit(r, c) ==
  /\ files' = c.fs
  /\ pc' = [pc EXCEPT ![r] = c.pc]
  /\ resp' = [resp EXCEPT ![r] = c.resp]
  /\ loc' = [loc EXCEPT ![r] = c.loc]
  /\ h' = [h EXCEPT ![r] = [c.h EXCEPT !.foreign = @ \cup ForeignTouched(r, c)]]

\* Mutant of Respond: the response is written but the handler does not
\* return, so it runs on from where it was.
RespondNoReturn(c, status, gif, tr, msg) ==
  [c EXCEPT !.resp = [sent |-> TRUE, sends |-> c.resp.sends + 1,
                      status |-> status, gifUrl |-> gif,
                      transcription |-> tr, message |-> msg,
                      metadata |-> NoMeta, detail |-> ""]]

\* res.status(s).json(...) followed by the handler's return.
Respond(c, status, gif, tr, msg) ==
  [c EXCEPT !.pc = "done",
            !.resp = [sent |-> TRUE, sends |-> c.resp.sends + 1,
                      status |-> status, gifUrl |-> gif,
                      transcription |-> tr, message |-> msg,
                      metadata |-> NoMeta, detail |-> ""]]

\* The stages that are called with (startTime, duration): extractAudio,
\* the render call, and getTranscription of the Cloudinary servers (which
\* cuts the audio out of the uploaded video by URL).
TakesWindow(s) ==
  s \in {"extract", "render"} \/ (s = "transcribe" /\ variant \in CloudVariants)

\* A stage is called with the handler's locals.
StartStage(c, s) ==
  [c EXCEPT !.h.running = @ \cup {s},
            !.h.invoked = @ \cup {s},
            !.h.late = @ \/ c.resp.sent,
            !.h.args[s] = IF TakesWindow(s)
                          THEN Args(c.loc.startTime, c.loc.duration)
                          ELSE @]

EndStage(c, s, success) ==
  [c EXCEPT !.h.running = @ \ {s},
            !.h.ok = IF success THEN @ \cup {s} ELSE @,
            !.h.failed = IF success THEN @ ELSE @ \cup {s}]

\* ffmpeg ... .save(n) / fs.writeFileSync: (over)writes the file n.
writeFile(fs, n, r, size) == [fs EXCEPT ![n] = File(r, size)]

unlinkSync(fs, n) == [fs EXCEPT ![n] = NoFile]

(***************************************************************************)
(* catch (err) of the handler: both deletions are guarded by existsSync    *)
(* and wrapped in their own try/catch; the temporary GIF of the two-pass   *)
(* variant is not in scope here.  Then the 500 response, whose message is  *)
(* err.message || 'Error during processing' whatever NODE_ENV says.        *)
(***************************************************************************)
GuardedUnlink(fs, n, bad) ==
  IF existsSync(fs, n) /\ n.kind \notin bad THEN unlinkSync(fs, n) ELSE fs

CatchBlock(c, bad, err) ==
  LET fs1 == GuardedUnlink(c.fs, c.loc.tempFilePath, bad)
      fs2 == GuardedUnlink(fs1, c.loc.outputAudioPath, bad)
      threw == \/ existsSync(c.fs, c.loc.tempFilePath) /\ "upload" \in bad
               \/ existsSync(fs1, c.loc.outputAudioPath) /\ "audio" \in bad
  IN  [Respond([c EXCEPT !.fs = fs2,
                         !.h.unlinkThrew = @ \/ threw,
                         !.h.thrown = err],
               500, NoName, Null, err)
         EXCEPT !.resp.detail = err]

(***************************************************************************)
(* "Clean up temporary files" on the success path, then res.json: the      *)
(* three deletions are guarded by existsSync but not by a try, so the      *)
(* first one that throws ends in the handler's catch.                      *)
(***************************************************************************)
TryUnlink(st, n, bad) ==
  IF st.threw \/ ~existsSync(st.fs, n) THEN st
  ELSE IF n.kind \in bad THEN [st EXCEPT !.threw = TRUE]
  ELSE [st EXCEPT !.fs = unlinkSync(st.fs, n)]

\* Mutant of CleanupAndRespond: res.json is called before, and without,
\* the deletions.
RespondWithoutCleanup(c, bad) ==
  Respond(c, 200, c.loc.outputFilename, c.loc.transcription, "")

CleanupAndRespond(c, bad) ==
  LET s0 == [fs |-> c.fs, threw |-> FALSE]
      s1 == TryUnlink(s0, c.loc.tempFilePath, bad)
      s2 == TryUnlink(s1, c.loc.outputAudioPath, bad)
      s3 == TryUnlink(s2, c.loc.tempGifPath, bad)
  IN  IF s3.threw
      THEN CatchBlock([c EXCEPT !.fs = s3.fs, !.h.unlinkThrew = TRUE],
                      bad, "unlink")
      ELSE Respond([c EXCEPT !.fs = s3.fs], 200, c.loc.outputFilename,
                   c.loc.transcription, "")


(***************************************************************************)
(* The render call.  The one-pass variants call createGIF with the         *)
(* transcription; the two-pass variant names temp_<Date.now()>.gif and     *)
(* renders the un-captioned GIF into it.                                   *)
(***************************************************************************)
\* Mutant of StartRender: createGIF tests transcription !== null, so the
\* empty string gets a drawtext filter too.
StartRenderUnlessNull(c) ==
  IF variant = "cjs"
  THEN [StartStage(c, "render") EXCEPT !.loc.tempGifPath = Name("temp", now),
                                       !.pc = "baseGif"]
  ELSE [StartStage(c, "render") EXCEPT !.pc = "createGIF",
                                       !.h.overlay = ~c.loc.transcription.null]

\* createGIF adds the drawtext filter under if (transcription).
StartRender(c) ==
  IF variant = "cjs"
  THEN [StartStage(c, "render") EXCEPT !.loc.tempGifPath = Name("temp", now),
                                       !.pc = "baseGif"]
  ELSE [StartStage(c, "render") EXCEPT !.pc = "createGIF",
                                       !.h.overlay =
                                          TruthyText(c.loc.transcription)]

\* The transcription try/catch is left with the final value of
\* `transcription`.
Resolve(c, t) == [c EXCEPT !.loc.transcription = t, !.h.resolved = TRUE]

\* Mutant of AfterExtract: transcribeAudio is called without await, and the
\* handler goes on to the render call while the recognition is running.
AfterExtractNoAwait(c, readFails) ==
  LET a == c.loc.outputAudioPath IN
  IF existsSync(c.fs, a) /\ c.fs[a].size > 0 /\ ~readFails
  THEN StartRender(Resolve(StartStage(c, "transcribe"), Null))
  ELSE StartRender(Resolve(c, Null))

\* Mutant of AfterExtract: the size of the audio file is not looked at;
\* transcribeAudio is called whenever extraction returned (reading a
\* missing file throws, an empty one is sent to the service).
AfterExtractNoCheck(c, readFails) ==
  LET a == c.loc.outputAudioPath
      usable == existsSync(c.fs, a) /\ c.fs[a].size > 0
      c1 == [c EXCEPT !.h.audio = IF usable THEN "usable" ELSE "unusable"]
  IN  IF readFails \/ ~existsSync(c.fs, a)
      THEN StartRender(Resolve(
             EndStage(StartStage(c1, "transcribe"), "transcribe", FALSE), Null))
      ELSE [StartStage(c1, "transcribe") EXCEPT !.pc = "recognize"]

(***************************************************************************)
(* From the return of extractAudio to the next await: the audio file is    *)
(* checked (existsSync and size > 0); transcribeAudio reads it             *)
(* (readFileSync may throw, which the inner catch absorbs) and awaits      *)
(* speechClient.recognize; without a usable audio file the handler goes    *)
(* straight on to the render call with transcription = null.               *)
(***************************************************************************)
AfterExtract(c, readFails) ==
  LET a == c.loc.outputAudioPath
      usable == existsSync(c.fs, a) /\ c.fs[a].size > 0
      c1 == [c EXCEPT !.h.audio = IF usable THEN "usable" ELSE "unusable"]
  IN  IF usable
      THEN IF readFails
           THEN StartRender(Resolve(
                  EndStage(StartStage(c1, "transcribe"), "transcribe", FALSE),
                  Null))
           ELSE [StartStage(c1, "transcribe") EXCEPT !.pc = "recognize"]
      ELSE StartRender(Resolve(c1, Null))

\* !startTime || !endTime || endTime <= startTime, on the two strings.
InvalidWindow(startTime, endTime) ==
  \/ ~Truthy(startTime)
  \/ ~Truthy(endTime)
  \/ StrLessEq(endTime.chars, startTime.chars)

\* fs.renameSync(from, to): throws when `from` is missing.
renameSync(fs, from, to) == [fs EXCEPT ![to] = fs[from], ![from] = NoFile]

(***************************************************************************)
(* The caption wrapping of createGIF (part_002): the text is split at      *)
(* every space, the pieces are collected into lines of at most 30          *)
(* characters, and the trimmed lines are joined with newlines.  Strings    *)
(* are sequences of code units.                                            *)
(***************************************************************************)
Space == 32        \* " "
Newline == 10      \* "\n"
LineLimit == 30    \* (currentLine + word).length > 30

\* The characters String.prototype.trim removes (those that occur here).
Whitespace == {Space, Newline}

\* s.split(sep): the pieces between the separators, empty pieces included.
RECURSIVE Split(_, _)
Split(s, sep) ==
  IF \A i \in 1..Len(s) : s[i] # sep THEN <<s>>
  ELSE LET i == CHOOSE i \in 1..Len(s) :
                  s[i] = sep /\ \A j \in 1..(i - 1) : s[j] # sep
       IN  <<SubSeq(s, 1, i - 1)>> \o Split(SubSeq(s, i + 1, Len(s)), sep)

RECURSIVE TrimStart(_)
TrimStart(s) ==
  IF s # <<>> /\ Head(s) \in Whitespace THEN TrimStart(Tail(s)) ELSE s

RECURSIVE TrimEnd(_)
TrimEnd(s) ==
  IF s # <<>> /\ s[Len(s)] \in Whitespace
  THEN TrimEnd(SubSeq(s, 1, Len(s) - 1))
  ELSE s

trim(s) == TrimEnd(TrimStart(s))

\* lines.join(sep)
RECURSIVE Join(_, _)
Join(lines, sep) ==
  IF lines = <<>> THEN <<>>
  ELSE IF Len(lines) = 1 THEN lines[1]
  ELSE lines[1] \o <<sep>> \o Join(Tail(lines), sep)

\* Mutant of WrapWord: the test looks at the current line only, not at the
\* line with the word added.
WrapWordLateBreak(st, word) ==
  IF Len(st.currentLine) > LineLimit
  THEN [lines |-> Append(st.lines, trim(st.currentLine)),
        currentLine |-> word \o <<Space>>]
  ELSE [st EXCEPT !.currentLine = @ \o word \o <<Space>>]

\* Mutant of WrapWord: a line break starts an empty line, the word that
\* did not fit is lost.
WrapWordDropsWord(st, word) ==
  IF Len(st.currentLine \o word) > LineLimit
  THEN [lines |-> Append(st.lines, trim(st.currentLine)),
        currentLine |-> <<>>]
  ELSE [st EXCEPT !.currentLine = @ \o word \o <<Space>>]

\* The callback of words.forEach.
WrapWord(st, word) ==
  IF Len(st.currentLine \o word) > LineLimit
  THEN [lines |-> Append(st.lines, trim(st.currentLine)),
        currentLine |-> word \o <<Space>>]
  ELSE [st EXCEPT !.currentLine = @ \o word \o <<Space>>]

RECURSIVE forEach(_, _)
forEach(words, st) ==
  IF words = <<>> THEN st
  ELSE forEach(Tail(words), WrapWord(st, Head(words)))

\* The lines array after the final lines.push(currentLine.trim()).
WrapLines(text) ==
  LET st == forEach(Split(text, Space), [lines |-> <<>>, currentLine |-> <<>>])
  IN  Append(st.lines, trim(st.currentLine))

\* The captions of the model: up to MaxWords pieces separated by single
\* spaces; piece k consists of one letter of its own, repeated; a piece of
\* length 0 stands for two spaces in a row (or a space at an end).
WordLens == {0, 1, 14, 15, 30, 31}

Word(k, n) == [j \in 1..n |-> 96 + k]

CaptionTexts ==
  { Join([k \in 1..Len(ws) |-> Word(k, ws[k])], Space) :
      ws \in UNION {[1..n -> WordLens] : n \in 1..MaxWords} } \ {<<>>}

NoCap == [text |-> <<>>, lines |-> <<>>, overlay |-> <<>>, done |-> FALSE]

(***************************************************************************)
(* The transcript of a recognition answer.  response.results is a sequence *)
(* of results, a result is the sequence of its alternatives, and an        *)
(* alternative is its transcript.                                          *)
(***************************************************************************)
MaxResults == 2
Runs == 2          \* how often the same input is rendered

\* The transcripts the service returns: 14 times "a" and 16 times "b".
Transcripts == {Word(1, 14), Word(2, 16)}

\* A result has no alternative, one, or two.
Results ==
  {<<>>} \cup {<<t>> : t \in Transcripts}
         \cup {<<t, u>> : t \in Transcripts, u \in Transcripts}

Responses == UNION {[1..n -> Results] : n \in 0..MaxResults}

\* result.alternatives[0].transcript throws a TypeError for a result that
\* has no alternative; the try around the call catches it.
MapThrows(results) == \E k \in 1..Len(results) : results[k] = <<>>

\* Mutant of JoinTranscripts: the last alternative of every result.
JoinLastAlternatives(results) ==
  Join([k \in 1..Len(results) |-> results[k][Len(results[k])]], Space)

\* response.results.map(result => result.alternatives[0].transcript)
\*   .join(' ')
JoinTranscripts(results) ==
  Join([k \in 1..Len(results) |-> results[k][1]], Space)

\* let transcription = null: falsy, like a field that is not there.
NoTranscript == Undefined

(***************************************************************************)
(* What createGIF orders: the cut, the frame rate, the width, the text to  *)
(* draw and the name of the result.  The file-based servers give ffmpeg    *)
(* fps 10 and width 2160 and draw the transcription as it is with font     *)
(* size 20 (the two-pass variant in a second ffmpeg run); the Cloudinary   *)
(* servers build a URL with video_sampling 10 and width 500 and overlay    *)
(* the text with font size 24, part_002 after wrapping it.                 *)
(***************************************************************************)
NoOverlay == [present |-> FALSE, text |-> <<>>, fontSize |-> 0]
Overlay(text, fontSize) ==
  [present |-> TRUE, text |-> text, fontSize |-> fontSize]

\* Mutant of createGIF: the cut starts at startTime plus the time of day.
createGIFStamped(video, startTime, duration, text, output) ==
  [video |-> video, startTime |-> startTime + now, duration |-> duration,
   fps |-> 10,
   width |-> IF variant \in CloudVariants THEN 500 ELSE 2160,
   overlay |-> IF ~Truthy(text) THEN NoOverlay
               ELSE IF variant = "cloud"
               THEN Overlay(Join(WrapLines(text.chars), Newline), 24)
               ELSE IF variant = "simple" THEN Overlay(text.chars, 24)
               ELSE Overlay(text.chars, 20),
   output |-> output]

createGIF(video, startTime, duration, text, output) ==
  [video |-> video, startTime |-> startTime, duration |-> duration,
   fps |-> 10,
   width |-> IF variant \in CloudVariants THEN 500 ELSE 2160,
   overlay |-> IF ~Truthy(text) THEN NoOverlay
               ELSE IF variant = "cloud"
               THEN Overlay(Join(WrapLines(text.chars), Newline), 24)
               ELSE IF variant = "simple" THEN Overlay(text.chars, 24)
               ELSE Overlay(text.chars, 20),
   output |-> output]

\* The inputs of the renders: one video, the windows 0..5 and 2.5..5.
RunInputs ==
  [video : {1}, startTime : {0, 250}, endTime : {500}, results : Responses]

NoRun ==
  [stage |-> "none", video |-> 0, startTime |-> 0, duration |-> 0,
   results |-> <<>>, threw |-> FALSE, transcription |-> NoTranscript,
   descriptions |-> <<>>]

(***************************************************************************)
(* Routing.  Express offers a request to the handlers in the order in      *)
(* which the file registered them; a handler either answers or calls       *)
(* next(), and a request that no handler answers gets the 404 of Express.  *)
(***************************************************************************)
Handlers ==
  IF variant = "cjs"
  THEN <<"cors", "json", "root", "notFound", "static", "convert">>
  ELSE IF variant \in {"esm", "wasm"}
  THEN <<"cors", "json", "static", "convert", "root", "notFound">>
  ELSE <<"cors", "json", "convert", "health", "root", "errorHandler">>

OutputPath == "/output/a.gif"
Paths == {"/", "/convert", "/health", OutputPath, "/other"}

\* stored: /tmp/output holds the file the path names.
HttpRequests ==
  {q \in [method : {"GET", "POST"}, path : Paths, stored : BOOLEAN] :
     q.stored => q.path = OutputPath}

\* The handler answers the request (it does not call next()).  cors() and
\* express.json() pass GET and POST on; express.static answers a GET for a
\* file it finds and passes everything else on; the handler with four
\* arguments is skipped while there is no error.
Answers(handler, q) ==
  \/ handler = "root" /\ q.method = "GET" /\ q.path = "/"
  \/ handler = "notFound"
  \/ handler = "static" /\ q.method = "GET" /\ q.path = OutputPath /\ q.stored
  \/ handler = "convert" /\ q.method = "POST" /\ q.path = "/convert"
  \/ handler = "health" /\ q.method = "GET" /\ q.path = "/health"

NoRoute ==
  [method |-> "", path |-> "", stored |-> FALSE, layer |-> 0, handler |-> ""]

(***************************************************************************)
(* The WebAssembly engine of part_003 (225-455).  All requests use the     *)
(* one FFmpeg instance and its in-memory file system.  multer stores the   *)
(* upload without an extension, so every request calls its input           *)
(* `input`; the outputs are output.mp3 and output.gif.  The content of an  *)
(* engine file is the request whose video it was made of (0: no file).     *)
(* Each ffmpeg.* call is one message to the engine's worker, which         *)
(* handles the messages one at a time; requests interleave between them.   *)
(***************************************************************************)
EngineFiles == {"input", "output.mp3", "output.gif"}

\* The engine calls of extractAudio and of createGIF, in their order.
EngineSteps ==
  <<"writeFile", "exec", "readFile", "deleteInput", "deleteOutput">>

OutputFile(fn) == IF fn = "extractAudio" THEN "output.mp3" ELSE "output.gif"

At(fn, k) == [fn |-> fn, step |-> EngineSteps[k]]
Idle == [fn |-> "none", step |-> "idle"]
Finished == [fn |-> "none", step |-> "done"]

\* audio, gif: whose video the file written to /tmp/output for the request
\* was made of; failed: an engine call threw and the catch answered 500;
\* foreign: the request read, overwrote or deleted an engine file that
\* held the data of another request.
NoEngine ==
  [fs |-> [f \in EngineFiles |-> 0],
   pc |-> [r \in Requests |-> Idle],
   audio |-> [r \in Requests |-> 0],
   gif |-> [r \in Requests |-> 0],
   failed |-> [r \in Requests |-> FALSE],
   foreign |-> [r \in Requests |-> FALSE]]

\* The engine file holds the data of a request other than r.
Others(e, f, r) == e.fs[f] # 0 /\ e.fs[f] # r

\* The call after step k of fn: createGIF follows extractAudio (the
\* recognition in between makes no engine call), the response createGIF.
After(fn, k) ==
  IF k < Len(EngineSteps) THEN At(fn, k + 1)
  ELSE IF fn = "extractAudio" THEN At("createGIF", 1)
  ELSE Finished

\* An engine call rejects: the handler's catch answers 500.
Rejected(e, r) ==
  [e EXCEPT !.pc[r] = Finished, !.failed[r] = TRUE]

(***************************************************************************)
(* The page: VideoGifConverter (part_000) and the VideoTrimmer it keeps    *)
(* mounted while a file is selected.  Times are in hundredths of a second  *)
(* (the sliders' step).                                                    *)
(***************************************************************************)
\* The videos the user has, by duration: one shorter than the trimmer's
\* minimum window, a short one and a long one.
ClipLength == <<5, 300, 1000>>
Clips == DOMAIN ClipLength

\* endTime - 0.1, startTime + 0.1
MinWindow == 10

\* useState({ start: 0, end: 5 })
DefaultTrimPoints == [start |-> 0, end |-> 500]

\* The positions the user drags a slider to (min 0, max duration).
SliderValues == {0, 5, 100, 300, 1000}

\* The conversions the page may have in flight at once.
MaxFlight == 2

Min(a, b) == IF a <= b THEN a ELSE b
Max(a, b) == IF a >= b THEN a ELSE b

\* selectedFile, gifUrl, isProcessing, trimPoints: VideoGifConverter's
\* state (0: null; gifUrl k: the GIF made of clip k).  duration,
\* startTime, endTime, isInitialized: VideoTrimmer's state.  loaded: the
\* player has reported the duration of the selected file.  moved: the
\* trimmer's last event was a handleTimeChange call.  flight: the
\* conversion requests sent and not yet finished, each with the file and
\* the window it submitted.
NoUI ==
  [selectedFile |-> 0, gifUrl |-> 0, isProcessing |-> FALSE,
   trimPoints |-> DefaultTrimPoints,
   duration |-> 0, startTime |-> 0, endTime |-> 0, isInitialized |-> FALSE,
   loaded |-> FALSE, moved |-> FALSE, flight |-> <<>>]

Without(s, i) == [j \in 1..(Len(s) - 1) |-> IF j < i THEN s[j] ELSE s[j + 1]]

(***************************************************************************)
(* The actions.                                                            *)
(***************************************************************************)
Init ==
  /\ variant \in Variants
  /\ development \in IF variant \in CloudVariants THEN BOOLEAN ELSE {FALSE}
  /\ speechClient \in IF variant = "cloud" THEN BOOLEAN ELSE {TRUE}
  /\ run = NoRun
  /\ route = NoRoute
  /\ now = 0
  /\ files = [n \in FileNames |-> NoFile]
  /\ pc = [r \in Requests |-> "idle"]
  /\ req = [r \in Requests |-> NoReq]
  /\ loc = [r \in Requests |-> NoLoc]
  /\ resp = [r \in Requests |-> NoResp]
  /\ h = [r \in Requests |-> NoHist]
  /\ cap = NoCap
  /\ engine = NoEngine
  /\ ui = NoUI

\* upload.single('video').  With dest: '/tmp/uploads' multer stores the
\* video part, if there is one, under a random name and then calls the
\* handler.  The Cloudinary servers keep the part in memory with a limit of
\* 50 MB; a larger part makes multer raise an error (err), which it passes
\* to the upload callback (part_002) or to next() (part_003).  Only the
\* Cloudinary servers read req.file.size and req.body.includeSubtitles.
\* The text fields of the form, youtubeUrl among them, arrive in req.body.
uploadSingle(r, inputs) ==
  /\ pc[r] = "idle"
  /\ \E i \in inputs :
     \E err \in IF variant \in CloudVariants THEN BOOLEAN ELSE {FALSE},
        sub \in IF variant \in CloudVariants THEN BOOLEAN ELSE {FALSE},
        size \in IF variant \in CloudVariants /\ i.file THEN FileSizes ELSE {1},
        url \in IF i.file THEN {FALSE} ELSE BOOLEAN :
       /\ req' = [req EXCEPT ![r] =
                    [file |-> i.file /\ ~err,
                     size |-> IF i.file /\ ~err THEN size ELSE 0,
                     startTime |-> i.startTime,
                     endTime |-> i.endTime, err |-> err,
                     includeSubtitles |-> sub, youtubeUrl |-> url]]
       /\ files' = IF i.file /\ variant \in FileVariants
                   THEN writeFile(files, Name("upload", r), r, 1)
                   ELSE files
  /\ pc' = [pc EXCEPT ![r] = "handler"]
  /\ UNCHANGED <<ui, engine, route, run, cap, variant, development, speechClient, now, loc, resp, h>>

\* Mutant of convert: the duration is computed from the whole seconds of
\* the two times (parseInt(endTime) - parseInt(startTime)).
convertWholeSeconds(r) ==
  /\ pc[r] = "handler"
  /\ variant \in FileVariants
  /\ LET c == Ctx(r)
         q == req[r]
     IN  IF ~q.file
         THEN /\ Commit(r, Respond(c, 400, NoName, Null, "No video file uploaded"))
              /\ now' = now
         ELSE IF InvalidWindow(q.startTime, q.endTime)
         THEN /\ Commit(r, Respond(c, 400, NoName, Null, "Invalid start or end time"))
              /\ now' = now
         ELSE \E t2 \in {now, IF now < MaxClock THEN now + 1 ELSE now} :
                /\ now' = t2
                /\ Commit(r,
                     [StartStage(
                        [c EXCEPT !.loc = [NoLoc EXCEPT
                           !.tempFilePath = Name("upload", r),
                           !.startTime = ToNumber(q.startTime.chars),
                           !.endTime = ToNumber(q.endTime.chars),
                           !.duration =
                              100 * (ToNumber(q.endTime.chars) \div 100)
                                - 100 * (ToNumber(q.startTime.chars) \div 100),
                           !.outputFilename = Name("output", now),
                           !.outputAudioPath = Name("audio", t2)]],
                        "extract")
                      EXCEPT !.pc = "extractAudio"])
  /\ UNCHANGED <<ui, engine, route, run, cap, variant, development, speechClient, req>>

\* The handler from its entry to await extractAudio(...).  Date.now() is
\* read for the output name and again for the audio name.
convert(r) ==
  /\ pc[r] = "handler"
  /\ variant \in FileVariants
  /\ LET c == Ctx(r)
         q == req[r]
     IN  IF ~q.file
         THEN /\ Commit(r, Respond(c, 400, NoName, Null, "No video file uploaded"))
              /\ now' = now
         ELSE IF InvalidWindow(q.startTime, q.endTime)
         THEN /\ Commit(r, Respond(c, 400, NoName, Null, "Invalid start or end time"))
              /\ now' = now
         ELSE \E t2 \in {now, IF now < MaxClock THEN now + 1 ELSE now} :
                /\ now' = t2
                /\ Commit(r,
                     [StartStage(
                        [c EXCEPT !.loc = [NoLoc EXCEPT
                           !.tempFilePath = Name("upload", r),
                           !.startTime = ToNumber(q.startTime.chars),
                           !.endTime = ToNumber(q.endTime.chars),
                           !.duration = ToNumber(q.endTime.chars)
                                          - ToNumber(q.startTime.chars),
                           !.outputFilename = Name("output", now),
                           !.outputAudioPath = Name("audio", t2)]],
                        "extract")
                      EXCEPT !.pc = "extractAudio"])
  /\ UNCHANGED <<ui, engine, route, run, cap, variant, development, speechClient, req>>

\* ffmpeg 'end' of extractAudio: the audio file is there (possibly empty,
\* possibly not written at all); the handler runs on to its next await.
\* The WebAssembly extractAudio writes the file itself (fs.writeFileSync),
\* so there it is never missing.
extractAudioEnd(r) ==
  /\ pc[r] = "extractAudio"
  /\ \E audio \in IF variant = "wasm" THEN {"ok", "empty"}
                   ELSE {"ok", "empty", "missing"},
        readFails \in BOOLEAN :
       LET c == Ctx(r)
           a == c.loc.outputAudioPath
           fs1 == IF audio = "ok" THEN writeFile(c.fs, a, r, 1)
                  ELSE IF audio = "empty" THEN writeFile(c.fs, a, r, 0)
                  ELSE c.fs
       IN  Commit(r, AfterExtract(
                       EndStage([c EXCEPT !.fs = fs1], "extract", TRUE),
                       readFails))
  /\ UNCHANGED <<ui, engine, route, run, cap, variant, development, speechClient, now, req>>

\* Mutant of extractAudioError: the rejection is absorbed and the handler
\* goes on to the render call without a transcript.
extractAudioErrorDegrades(r) ==
  /\ pc[r] = "extractAudio"
  /\ Commit(r, StartRender(Resolve(EndStage(Ctx(r), "extract", FALSE), Null)))
  /\ UNCHANGED <<ui, engine, route, run, cap, variant, development, speechClient, now, req>>

\* ffmpeg 'error' of extractAudio: the await throws into the outer catch.
extractAudioError(r) ==
  /\ pc[r] = "extractAudio"
  /\ \E partial \in BOOLEAN, bad \in UnlinkFaults :
       LET c == Ctx(r)
           fs1 == IF partial THEN writeFile(c.fs, c.loc.outputAudioPath, r, 1)
                  ELSE c.fs
       IN  Commit(r, CatchBlock(
                       EndStage([c EXCEPT !.fs = fs1], "extract", FALSE),
                       bad, "extract"))
  /\ UNCHANGED <<ui, engine, route, run, cap, variant, development, speechClient, now, req>>

\* Mutant of recognizeReturn: no inner try/catch around transcribeAudio, so
\* its error reaches the handler's outer catch.
recognizeReturnFatal(r) ==
  /\ pc[r] = "recognize"
  /\ \E out \in {"text", "malformed", "throws"}, bad \in UnlinkFaults :
       LET c == Ctx(r) IN
       Commit(r,
         IF out = "text"
         THEN StartRender(Resolve(EndStage(c, "transcribe", TRUE),
                                  Text("hello world")))
         ELSE CatchBlock(EndStage(c, "transcribe", FALSE), bad, "transcribe"))
  /\ UNCHANGED <<ui, engine, route, run, cap, variant, development, speechClient, now, req>>

\* speechClient.recognize settles.  "malformed" is a result without
\* alternatives: the map throws inside transcribeAudio's try, so it ends
\* like a rejected call, in 'Failed to transcribe audio', which the
\* handler's inner catch absorbs.
recognizeReturn(r) ==
  /\ pc[r] = "recognize"
  /\ \E out \in {"text", "noresults", "malformed", "throws"} :
       LET c == Ctx(r)
           t == IF out = "text" THEN Text("hello world")
                ELSE IF out = "noresults" THEN Text("")
                ELSE Null
       IN  Commit(r, StartRender(Resolve(
                       EndStage(c, "transcribe", out \in {"text", "noresults"}),
                       t)))
  /\ UNCHANGED <<ui, engine, route, run, cap, variant, development, speechClient, now, req>>

\* createGIF resolves: the output GIF is written; cleanup and response.
createGIFEnd(r) ==
  /\ pc[r] = "createGIF"
  /\ \E bad \in UnlinkFaults :
       LET c == Ctx(r)
           fs1 == writeFile(c.fs, c.loc.outputFilename, r, 1)
       IN  Commit(r, CleanupAndRespond(
                       EndStage([c EXCEPT !.fs = fs1], "render", TRUE), bad))
  /\ UNCHANGED <<ui, engine, route, run, cap, variant, development, speechClient, now, req>>

\* createGIF rejects.
createGIFError(r) ==
  /\ pc[r] = "createGIF"
  /\ \E partial \in BOOLEAN, bad \in UnlinkFaults :
       LET c == Ctx(r)
           fs1 == IF partial THEN writeFile(c.fs, c.loc.outputFilename, r, 1)
                  ELSE c.fs
       IN  Commit(r, CatchBlock(
                       EndStage([c EXCEPT !.fs = fs1], "render", FALSE),
                       bad, "render"))
  /\ UNCHANGED <<ui, engine, route, run, cap, variant, development, speechClient, now, req>>

\* Two-pass variant: the un-captioned GIF is saved to tempGifPath; with a
\* transcription the overlay pass starts, without one the temporary GIF is
\* renamed to the output, the temporary files are deleted and the response
\* is sent.
baseGifEnd(r) ==
  /\ pc[r] = "baseGif"
  /\ \E bad \in UnlinkFaults :
       LET c == Ctx(r)
           fs1 == writeFile(c.fs, c.loc.tempGifPath, r, 1)
           c1 == EndStage([c EXCEPT !.fs = fs1], "render", TRUE)
       IN  IF TruthyText(c1.loc.transcription)
           THEN Commit(r, [StartStage(c1, "overlay") EXCEPT !.pc = "addSubtitles",
                                                            !.h.overlay = TRUE])
           ELSE IF ~existsSync(c1.fs, c1.loc.tempGifPath)
           THEN Commit(r, CatchBlock(c1, bad, "rename"))
           ELSE Commit(r, CleanupAndRespond(
                  [c1 EXCEPT !.fs = renameSync(c1.fs, c1.loc.tempGifPath,
                                               c1.loc.outputFilename),
                             !.h.renamed = TRUE],
                  bad))
  /\ UNCHANGED <<ui, engine, route, run, cap, variant, development, speechClient, now, req>>

\* Two-pass variant: the first pass fails.
baseGifError(r) ==
  /\ pc[r] = "baseGif"
  /\ \E partial \in BOOLEAN, bad \in UnlinkFaults :
       LET c == Ctx(r)
           fs1 == IF partial THEN writeFile(c.fs, c.loc.tempGifPath, r, 1)
                  ELSE c.fs
       IN  Commit(r, CatchBlock(
                       EndStage([c EXCEPT !.fs = fs1], "render", FALSE),
                       bad, "render"))
  /\ UNCHANGED <<ui, engine, route, run, cap, variant, development, speechClient, now, req>>

\* addSubtitlesToGIF resolves (ffmpeg read tempGifPath and saved the
\* captioned GIF); cleanup and response.
addSubtitlesEnd(r) ==
  /\ pc[r] = "addSubtitles"
  /\ existsSync(files, loc[r].tempGifPath)
  /\ \E bad \in UnlinkFaults :
       LET c == Ctx(r)
           fs1 == writeFile(c.fs, c.loc.outputFilename, r, 1)
       IN  Commit(r, CleanupAndRespond(
                       EndStage([c EXCEPT !.fs = fs1], "overlay", TRUE), bad))
  /\ UNCHANGED <<ui, engine, route, run, cap, variant, development, speechClient, now, req>>

\* addSubtitlesToGIF rejects.
addSubtitlesError(r) ==
  /\ pc[r] = "addSubtitles"
  /\ \E partial \in BOOLEAN, bad \in UnlinkFaults :
       LET c == Ctx(r)
           fs1 == IF partial THEN writeFile(c.fs, c.loc.outputFilename, r, 1)
                  ELSE c.fs
       IN  Commit(r, CatchBlock(
                       EndStage([c EXCEPT !.fs = fs1], "overlay", FALSE),
                       bad, "overlay"))
  /\ UNCHANGED <<ui, engine, route, run, cap, variant, development, speechClient, now, req>>

(***************************************************************************)
(* The Cloudinary server.  Its createGIF builds the transformation URL     *)
(* synchronously; an exception in it becomes 'Failed to create GIF' and    *)
(* lands in the handler's catch, which answers 500 with error:             *)
(* 'Conversion failed' and message: error.message in development mode,     *)
(* 'Internal server error' otherwise.                                      *)
(***************************************************************************)
ModeMessage(err) == IF development THEN err ELSE ""

\* Mutant of CloudCatch: the catch logs the error and sends nothing.
CloudCatchSilent(c, err) ==
  [c EXCEPT !.pc = "done", !.h.thrown = err]

CloudCatch(c, err) ==
  [Respond([c EXCEPT !.h.thrown = err], 500, NoName, Null, "Conversion failed")
     EXCEPT !.resp.detail = ModeMessage(err)]

CloudRender(c, r, throws) ==
  LET c1 == [StartStage(c, "render")
               EXCEPT !.h.overlay = TruthyText(c.loc.transcription)] IN
  IF throws
  THEN CloudCatch(EndStage(c1, "render", FALSE), "render")
  ELSE [Respond(EndStage(c1, "render", TRUE), 200, Name("cloudinary", r),
                c.loc.transcription, "")
          EXCEPT !.resp.metadata =
                   Meta(c.loc.duration, c.loc.startTime, c.loc.endTime,
                        req[r].size)]

\* Mutant of AttemptFailed: the last attempt is tested with i > retries.
AttemptFailedOneMore(c, r, renderThrows) ==
  IF variant = "simple" \/ c.loc.i > Retries
  THEN CloudRender(Resolve(EndStage(c, "transcribe", FALSE), Null), r,
                   renderThrows)
  ELSE [c EXCEPT !.pc = "backoff",
                 !.h.waits = Append(@, 1000 * (c.loc.i + 1))]

\* Mutant of AttemptFailed: every wait is 1000 ms.
AttemptFailedFixedWait(c, r, renderThrows) ==
  IF variant = "simple" \/ c.loc.i = Retries
  THEN CloudRender(Resolve(EndStage(c, "transcribe", FALSE), Null), r,
                   renderThrows)
  ELSE [c EXCEPT !.pc = "backoff", !.h.waits = Append(@, 1000)]

\* The catch of getTranscription's loop: after the last attempt
\* (i === retries) it returns null, before that it waits 1000 * (i + 1) ms.
\* getTranscription of part_003 has no loop: its catch returns null.
AttemptFailed(c, r, renderThrows) ==
  IF variant = "simple" \/ c.loc.i = Retries
  THEN CloudRender(Resolve(EndStage(c, "transcribe", FALSE), Null), r,
                   renderThrows)
  ELSE [c EXCEPT !.pc = "backoff",
                 !.h.waits = Append(@, 1000 * (c.loc.i + 1))]

\* The upload callback of the Cloudinary server up to
\* await uploadToCloudinary(req.file.buffer).
convertCloud(r) ==
  /\ pc[r] = "handler"
  /\ variant \in CloudVariants
  /\ ~(variant = "simple" /\ req[r].err)
  /\ LET c == Ctx(r)
         q == req[r]
         startTime == OrZero(parseFloat(q.startTime))
         endTime == parseFloat(q.endTime)
     IN  Commit(r,
           IF q.err THEN Respond(c, 400, NoName, Null, "Upload failed")
           ELSE IF ~q.file
           THEN Respond(c, 400, NoName, Null, "No video file uploaded")
           ELSE IF endTime.nan \/ endTime.val <= startTime.val
           THEN Respond(c, 400, NoName, Null, "Invalid time range")
           ELSE [StartStage(
                   [c EXCEPT !.loc = [NoLoc EXCEPT
                              !.startTime = startTime.val,
                              !.endTime = endTime.val,
                              !.duration = endTime.val - startTime.val]],
                   "upload")
                 EXCEPT !.pc = "uploadToCloudinary",
                        !.h.promise = "pending",
                        !.h.callback = "pending",
                        !.h.timer = IF variant = "cloud" THEN "armed"
                                    ELSE "none"])
  /\ UNCHANGED <<ui, engine, route, run, cap, variant, development, speechClient, now, req>>

\* The error-handling middleware of part_003: upload.single is a route
\* middleware there, so multer's error goes to next(err) and the handler is
\* never called.
errorMiddleware(r) ==
  /\ pc[r] = "handler"
  /\ variant = "simple"
  /\ req[r].err
  /\ Commit(r, [Respond(Ctx(r), 500, NoName, Null, "Something broke!")
                   EXCEPT !.resp.detail = ModeMessage("File too large")])
  /\ UNCHANGED <<ui, engine, route, run, cap, variant, development, speechClient, now, req>>

\* resolve(result) / reject(error) of the promise of uploadToCloudinary: a
\* promise that is settled stays as it is.
Settle(c, outcome) ==
  IF c.h.promise = "pending"
  THEN [c EXCEPT !.h.promise = outcome, !.h.settles = @ + 1]
  ELSE c

\* The callback of upload_stream starts with clearTimeout(uploadTimeout)
\* (part_002; part_003 sets no timer).
CallBack(c) ==
  [c EXCEPT !.h.callback = "fired",
            !.h.timer = IF @ = "armed" THEN "cleared" ELSE @]

\* Mutant of uploadToCloudinaryDone: the gate looks at includeSubtitles
\* only, whether or not the speech client exists.
uploadToCloudinaryDoneAnyClient(r) ==
  /\ pc[r] = "uploadToCloudinary"
  /\ \E renderThrows \in BOOLEAN :
       LET c == EndStage(Settle(CallBack(Ctx(r)), "resolved"), "upload", TRUE) IN
       Commit(r,
         IF req[r].includeSubtitles
         THEN [StartStage(c, "transcribe") EXCEPT !.pc = "fetchAudio",
                                                  !.loc.i = 0]
         ELSE CloudRender(Resolve(c, Null), r, renderThrows))
  /\ UNCHANGED <<ui, engine, route, run, cap, variant, development, speechClient, now, req>>

\* The upload callback fires with a result: transcription is attempted
\* when includeSubtitles === 'true' and the speech client exists (part_003
\* constructs the client unconditionally); otherwise the GIF URL is built
\* and the response sent.
uploadToCloudinaryDone(r) ==
  /\ pc[r] = "uploadToCloudinary"
  /\ \E renderThrows \in BOOLEAN :
       LET c == EndStage(Settle(CallBack(Ctx(r)), "resolved"), "upload", TRUE) IN
       Commit(r,
         IF req[r].includeSubtitles /\ speechClient
         THEN [StartStage(c, "transcribe") EXCEPT !.pc = "fetchAudio",
                                                  !.loc.i = 0]
         ELSE CloudRender(Resolve(c, Null), r, renderThrows))
  /\ UNCHANGED <<ui, engine, route, run, cap, variant, development, speechClient, now, req>>

\* The upload callback fires with an error: the timer is cleared and the
\* promise rejected.
uploadToCloudinaryError(r) ==
  /\ pc[r] = "uploadToCloudinary"
  /\ Commit(r, CloudCatch(EndStage(Settle(CallBack(Ctx(r)), "rejected"),
                                    "upload", FALSE),
                          "upload"))
  /\ UNCHANGED <<ui, engine, route, run, cap, variant, development, speechClient, now, req>>

\* The 30 s timer of part_002 fires before the callback: the promise is
\* rejected with 'Upload timeout' and the handler's catch answers; the
\* upload stream goes on, its callback is still to come.
uploadTimeout(r) ==
  /\ pc[r] = "uploadToCloudinary"
  /\ h[r].timer = "armed"
  /\ Commit(r, CloudCatch(
                  EndStage(Settle([Ctx(r) EXCEPT !.h.timer = "fired"],
                                  "rejected"),
                           "upload", FALSE),
                  "Upload timeout"))
  /\ UNCHANGED <<ui, engine, route, run, cap, variant, development, speechClient, now, req>>

\* Mutant of uploadCallbackLate: the late result is taken up as if the
\* promise were still pending, and the handler goes on to createGIF.
uploadCallbackLateTakenUp(r) ==
  /\ h[r].callback = "pending"
  /\ h[r].timer = "fired"
  /\ \E error \in BOOLEAN :
       LET c == [CallBack(Ctx(r)) EXCEPT !.h.settles = @ + 1,
                                         !.h.promise = "resolved"] IN
       Commit(r, CloudRender(Resolve(c, Null), r, FALSE))
  /\ UNCHANGED <<ui, engine, route, run, cap, variant, development, speechClient, now, req>>

\* The callback of upload_stream fires after the timer has: clearTimeout
\* finds no timer, and resolve / reject find the promise settled.
uploadCallbackLate(r) ==
  /\ h[r].callback = "pending"
  /\ h[r].timer = "fired"
  /\ \E error \in BOOLEAN :
       Commit(r, Settle(CallBack(Ctx(r)),
                        IF error THEN "rejected" ELSE "resolved"))
  /\ UNCHANGED <<ui, engine, route, run, cap, variant, development, speechClient, now, req>>

\* fetch(audioUrl) of attempt i settles: with the audio, the recognition
\* call follows; a rejected fetch or !audioResponse.ok fails the attempt.
fetchAudioReturn(r) ==
  /\ pc[r] = "fetchAudio"
  /\ \E ok \in BOOLEAN, renderThrows \in BOOLEAN :
       Commit(r, IF ok THEN [Ctx(r) EXCEPT !.pc = "recognizeCloud"]
                 ELSE AttemptFailed(Ctx(r), r, renderThrows))
  /\ UNCHANGED <<ui, engine, route, run, cap, variant, development, speechClient, now, req>>

\* speechClient.recognize of attempt i settles.
recognizeCloudReturn(r) ==
  /\ pc[r] = "recognizeCloud"
  /\ \E out \in {"text", "noresults", "malformed", "throws"},
        renderThrows \in BOOLEAN :
       LET c == Ctx(r) IN
       Commit(r,
         IF out = "text"
         THEN CloudRender(Resolve(EndStage(c, "transcribe", TRUE),
                                  Text("hello world")), r, renderThrows)
         ELSE IF out = "noresults"
         THEN CloudRender(Resolve(EndStage(c, "transcribe", TRUE), Text("")),
                          r, renderThrows)
         ELSE AttemptFailed(c, r, renderThrows))
  /\ UNCHANGED <<ui, engine, route, run, cap, variant, development, speechClient, now, req>>

\* The timer of setTimeout(resolve, 1000 * (i + 1)) fires: the loop starts
\* attempt i + 1.
backoffElapsed(r) ==
  /\ pc[r] = "backoff"
  /\ Commit(r, [Ctx(r) EXCEPT !.pc = "fetchAudio", !.loc.i = @ + 1])
  /\ UNCHANGED <<ui, engine, route, run, cap, variant, development, speechClient, now, req>>

\* createGIF with a text (if (text) holds for every non-empty string): the
\* overlay text is the wrapped lines joined with newlines.
createGIFWrap ==
  /\ ~cap.done
  /\ cap.text # <<>>
  /\ LET lines == WrapLines(cap.text) IN
       cap' = [cap EXCEPT !.lines = lines,
                          !.overlay = Join(lines, Newline),
                          !.done = TRUE]
  /\ UNCHANGED <<ui, engine, route, run, variant, development, speechClient, now, files, pc,
               req, loc, resp, h>>

\* The try of transcribeAudio / getTranscription after recognize has
\* answered: the transcript is joined, or the map throws and the catch
\* leaves the handler without a transcript.
recognizeAnswer ==
  /\ run.stage = "recognize"
  /\ LET threw == MapThrows(run.results) IN
       run' = [run EXCEPT !.stage = "render",
                          !.threw = threw,
                          !.transcription =
                             IF threw THEN NoTranscript
                             ELSE Str(JoinTranscripts(run.results))]
  /\ UNCHANGED <<ui, engine, route, cap, variant, development, speechClient, now, files, pc,
               req, loc, resp, h>>

\* One more request with the same video, window and transcript reaches
\* createGIF; the output is named after Date.now().
createGIFRun ==
  /\ run.stage = "render"
  /\ Len(run.descriptions) < Runs
  /\ run' = [run EXCEPT !.descriptions =
                Append(@, createGIF(run.video, run.startTime, run.duration,
                                    run.transcription, Name("output", now)))]
  /\ UNCHANGED <<ui, engine, route, cap, variant, development, speechClient, now, files, pc,
               req, loc, resp, h>>

\* A valid request reaches extractAudio of the WebAssembly server.
engineStart(r) ==
  /\ engine.pc[r] = Idle
  /\ engine' = [engine EXCEPT !.pc[r] = At("extractAudio", 1)]
  /\ UNCHANGED <<ui, route, run, cap, variant, development, speechClient, now,
               files, pc, req, loc, resp, h>>

\* await ffmpeg.writeFile(inputFileName, inputData): the request's video
\* becomes the engine's input file.
engineWriteFile(r) ==
  /\ engine.pc[r].step = "writeFile"
  /\ engine' = [engine EXCEPT
                  !.fs["input"] = r,
                  !.foreign[r] = @ \/ Others(engine, "input", r),
                  !.pc[r] = After(engine.pc[r].fn, 1)]
  /\ UNCHANGED <<ui, route, run, cap, variant, development, speechClient, now,
               files, pc, req, loc, resp, h>>

\* await ffmpeg.exec([...]): ffmpeg reads the input file that is there and
\* writes the output file; without an input it writes nothing and exec
\* resolves with a non-zero code, which the code does not look at.  The
\* arguments carry no -y: over an output file that is there ffmpeg either
\* writes or gives up, depending on the build.
engineExec(r) ==
  /\ engine.pc[r].step = "exec"
  /\ \E overwrite \in BOOLEAN :
       LET fn == engine.pc[r].fn
           out == OutputFile(fn)
           writes == engine.fs["input"] # 0
                       /\ (engine.fs[out] = 0 \/ overwrite)
       IN  engine' = [engine EXCEPT
                        !.fs[out] = IF writes THEN engine.fs["input"] ELSE @,
                        !.foreign[r] = @ \/ Others(engine, "input", r)
                                         \/ (writes /\ Others(engine, out, r)),
                        !.pc[r] = After(fn, 2)]
  /\ UNCHANGED <<ui, route, run, cap, variant, development, speechClient, now,
               files, pc, req, loc, resp, h>>

\* await ffmpeg.readFile(outputFileName) and fs.writeFileSync of the data:
\* reading a file that is not there rejects.
engineReadFile(r) ==
  /\ engine.pc[r].step = "readFile"
  /\ LET fn == engine.pc[r].fn
         out == OutputFile(fn)
     IN  engine' =
           IF engine.fs[out] = 0 THEN Rejected(engine, r)
           ELSE IF fn = "extractAudio"
           THEN [engine EXCEPT !.audio[r] = engine.fs[out],
                               !.foreign[r] = @ \/ Others(engine, out, r),
                               !.pc[r] = After(fn, 3)]
           ELSE [engine EXCEPT !.gif[r] = engine.fs[out],
                               !.foreign[r] = @ \/ Others(engine, out, r),
                               !.pc[r] = After(fn, 3)]
  /\ UNCHANGED <<ui, route, run, cap, variant, development, speechClient, now,
               files, pc, req, loc, resp, h>>

\* await ffmpeg.deleteFile(inputFileName), then
\* await ffmpeg.deleteFile(outputFileName): deleting a file that is not
\* there rejects.
engineDeleteFile(r) ==
  /\ engine.pc[r].step \in {"deleteInput", "deleteOutput"}
  /\ LET fn == engine.pc[r].fn
         k == IF engine.pc[r].step = "deleteInput" THEN 4 ELSE 5
         f == IF k = 4 THEN "input" ELSE OutputFile(fn)
     IN  engine' =
           IF engine.fs[f] = 0 THEN Rejected(engine, r)
           ELSE [engine EXCEPT !.fs[f] = 0,
                               !.foreign[r] = @ \/ Others(engine, f, r),
                               !.pc[r] = After(fn, k)]
  /\ UNCHANGED <<ui, route, run, cap, variant, development, speechClient, now,
               files, pc, req, loc, resp, h>>

\* handleFileSelect: the dropped file becomes the selected one and the
\* shown GIF is cleared.  The trimmer stays mounted with its state; its
\* player loads the new file.
handleFileSelect(f) ==
  /\ ui' = [ui EXCEPT !.selectedFile = f, !.gifUrl = 0,
                      !.loaded = FALSE, !.moved = FALSE]
  /\ UNCHANGED <<engine, route, run, cap, variant, development, speechClient,
               now, files, pc, req, loc, resp, h>>

\* handleDuration: the player reports the duration of the selected file;
\* the effect that follows initialises the trimmer once per mount.
handleDuration ==
  /\ ui.selectedFile # 0
  /\ ~ui.loaded
  /\ LET d == ClipLength[ui.selectedFile]
         first == d > 0 /\ ~ui.isInitialized
     IN  ui' = [ui EXCEPT !.duration = d, !.loaded = TRUE, !.moved = FALSE,
                          !.endTime = IF first THEN d ELSE @,
                          !.isInitialized = @ \/ first,
                          !.trimPoints =
                            IF first THEN [start |-> 0, end |-> d] ELSE @]
  /\ UNCHANGED <<engine, route, run, cap, variant, development, speechClient,
               now, files, pc, req, loc, resp, h>>

\* handleTimeChange(type, value): the user drags a slider to v.
handleTimeChange(type, v) ==
  /\ ui.selectedFile # 0
  /\ v <= ui.duration
  /\ v # (IF type = "start" THEN ui.startTime ELSE ui.endTime)
  /\ IF type = "start"
     THEN LET newStartTime == Min(v, ui.endTime - MinWindow)
          IN  ui' = [ui EXCEPT
                       !.startTime = newStartTime,
                       !.trimPoints =
                         [start |-> newStartTime, end |-> ui.endTime],
                       !.moved = TRUE]
     ELSE LET newEndTime == Max(v, ui.startTime + MinWindow)
          IN  ui' = [ui EXCEPT
                       !.endTime = newEndTime,
                       !.trimPoints =
                         [start |-> ui.startTime, end |-> newEndTime],
                       !.moved = TRUE]
  /\ UNCHANGED <<engine, route, run, cap, variant, development, speechClient,
               now, files, pc, req, loc, resp, h>>

\* handleConvert with the button enabled everywhere.
handleConvertAnyTime ==
  /\ ui.selectedFile # 0
  /\ Len(ui.flight) < MaxFlight
  /\ ui' = [ui EXCEPT
              !.isProcessing = TRUE,
              !.flight = Append(@, [file |-> ui.selectedFile,
                                    startTime |-> ui.trimPoints.start,
                                    endTime |-> ui.trimPoints.end])]
  /\ UNCHANGED <<engine, route, run, cap, variant, development, speechClient,
               now, files, pc, req, loc, resp, h>>

\* handleConvert up to its fetch: a click on the Convert button, which is
\* there once a file is selected and disabled while isProcessing.  The
\* request carries the selected file and trimPoints.
handleConvert ==
  /\ ui.selectedFile # 0
  /\ ~ui.isProcessing
  /\ Len(ui.flight) < MaxFlight
  /\ ui' = [ui EXCEPT
              !.isProcessing = TRUE,
              !.flight = Append(@, [file |-> ui.selectedFile,
                                    startTime |-> ui.trimPoints.start,
                                    endTime |-> ui.trimPoints.end])]
  /\ UNCHANGED <<engine, route, run, cap, variant, development, speechClient,
               now, files, pc, req, loc, resp, h>>

\* handleConvert after its fetch: a request finishes with a success
\* response ("ok"), an error response ("error") or a failure of the
\* network ("network"); finally resets isProcessing.
handleConvertSettled(outcome) ==
  /\ \E i \in DOMAIN ui.flight :
       ui' = [ui EXCEPT
                !.gifUrl = IF outcome = "ok" THEN ui.flight[i].file ELSE @,
                !.isProcessing = FALSE,
                !.flight = Without(@, i)]
  /\ UNCHANGED <<engine, route, run, cap, variant, development, speechClient,
               now, files, pc, req, loc, resp, h>>

\* Express offers the request to the next handler.
dispatch ==
  /\ route.layer > 0
  /\ route.handler = ""
  /\ route' =
       IF route.layer > Len(Handlers)
       THEN [route EXCEPT !.handler = "finalhandler"]
       ELSE IF Answers(Handlers[route.layer],
                       [method |-> route.method, path |-> route.path,
                        stored |-> route.stored])
       THEN [route EXCEPT !.handler = Handlers[route.layer]]
       ELSE [route EXCEPT !.layer = @ + 1]
  /\ UNCHANGED <<ui, engine, run, cap, variant, development, speechClient, now, files, pc,
               req, loc, resp, h>>

\* The clock advances.
Tick ==
  /\ now < MaxClock
  /\ now' = now + 1
  /\ UNCHANGED <<ui, engine, route, run, cap, variant, development, speechClient, files, pc, req, loc, resp, h>>

\* One request to any of the servers, every input.
Next ==
  \/ \E r \in Solo :
       \/ uploadSingle(r, AllInputs)
       \/ convert(r)
       \/ extractAudioEnd(r)
       \/ extractAudioError(r)
       \/ recognizeReturn(r)
       \/ createGIFEnd(r)
       \/ createGIFError(r)
       \/ baseGifEnd(r)
       \/ baseGifError(r)
       \/ addSubtitlesEnd(r)
       \/ addSubtitlesError(r)
       \/ convertCloud(r)
       \/ errorMiddleware(r)
       \/ uploadToCloudinaryDone(r)
       \/ uploadToCloudinaryError(r)
       \/ uploadTimeout(r)
       \/ uploadCallbackLate(r)
       \/ fetchAudioReturn(r)
       \/ recognizeCloudReturn(r)
       \/ backoffElapsed(r)
  \/ Tick

Spec == Init /\ [][Next]_vars

(***************************************************************************)
(* The steps the run-time makes happen: a ready handler runs, an ffmpeg    *)
(* process ends or fails, a timer fires, the upload to Cloudinary calls    *)
(* back or its 30 s timer rejects.  Not among them are the answers of      *)
(* fetch(audioUrl) and of speechClient.recognize: the code sets no timer   *)
(* on either, so nothing makes an unanswered call return.                  *)
(***************************************************************************)
Progress ==
  \E r \in Solo :
    \/ convert(r)
    \/ extractAudioEnd(r)
    \/ extractAudioError(r)
    \/ createGIFEnd(r)
    \/ createGIFError(r)
    \/ baseGifEnd(r)
    \/ baseGifError(r)
    \/ addSubtitlesEnd(r)
    \/ addSubtitlesError(r)
    \/ convertCloud(r)
    \/ errorMiddleware(r)
    \/ uploadToCloudinaryDone(r)
    \/ uploadToCloudinaryError(r)
    \/ uploadTimeout(r)
    \/ backoffElapsed(r)

SpecLive == Init /\ [][Next]_vars /\ WF_vars(Progress)

(***************************************************************************)
(* One request whose every pending operation ends: besides the steps of    *)
(* Progress, the speech service and fetch answer too (with a result or an  *)
(* error).  The clock stands still.                                        *)
(***************************************************************************)
FairNext ==
  \E r \in Solo :
    \/ uploadSingle(r, ConcInputs)
    \/ convert(r)
    \/ extractAudioEnd(r)
    \/ extractAudioError(r)
    \/ recognizeReturn(r)
    \/ createGIFEnd(r)
    \/ createGIFError(r)
    \/ baseGifEnd(r)
    \/ baseGifError(r)
    \/ addSubtitlesEnd(r)
    \/ addSubtitlesError(r)
    \/ convertCloud(r)
    \/ errorMiddleware(r)
    \/ uploadToCloudinaryDone(r)
    \/ uploadToCloudinaryError(r)
    \/ uploadTimeout(r)
    \/ uploadCallbackLate(r)
    \/ fetchAudioReturn(r)
    \/ recognizeCloudReturn(r)
    \/ backoffElapsed(r)

SpecFair == Init /\ [][FairNext]_vars /\ WF_vars(FairNext)

\* Concurrent requests to a file-based server.
ConcNext ==
  \/ \E r \in Requests :
       \/ uploadSingle(r, ConcInputs)
       \/ convert(r)
       \/ extractAudioEnd(r)
       \/ extractAudioError(r)
       \/ recognizeReturn(r)
       \/ createGIFEnd(r)
       \/ createGIFError(r)
       \/ baseGifEnd(r)
       \/ baseGifError(r)
       \/ addSubtitlesEnd(r)
       \/ addSubtitlesError(r)
  \/ Tick

ConcInit == Init /\ variant \in ConcVariants

\* createGIF of the Cloudinary server applied to every caption.
WrapInit ==
  /\ variant = "cloud"
  /\ development = FALSE
  /\ speechClient = TRUE
  /\ run = NoRun
  /\ route = NoRoute
  /\ now = 0
  /\ files = [n \in FileNames |-> NoFile]
  /\ pc = [r \in Requests |-> "idle"]
  /\ req = [r \in Requests |-> NoReq]
  /\ loc = [r \in Requests |-> NoLoc]
  /\ resp = [r \in Requests |-> NoResp]
  /\ h = [r \in Requests |-> NoHist]
  /\ cap \in {[NoCap EXCEPT !.text = t] : t \in CaptionTexts}
  /\ engine = NoEngine
  /\ ui = NoUI

WrapNext == createGIFWrap

\* No request is under way.
NoTraffic ==
  /\ development = FALSE
  /\ speechClient = TRUE
  /\ now = 0
  /\ files = [n \in FileNames |-> NoFile]
  /\ pc = [r \in Requests |-> "idle"]
  /\ req = [r \in Requests |-> NoReq]
  /\ loc = [r \in Requests |-> NoLoc]
  /\ resp = [r \in Requests |-> NoResp]
  /\ h = [r \in Requests |-> NoHist]
  /\ cap = NoCap

\* The recognition answers and the renders of the same input, on every
\* server.
RunInit ==
  /\ variant \in Variants
  /\ NoTraffic
  /\ engine = NoEngine
  /\ ui = NoUI
  /\ route = NoRoute
  /\ \E i \in RunInputs :
       run = [NoRun EXCEPT !.stage = "recognize",
                           !.video = i.video,
                           !.startTime = i.startTime,
                           !.duration = i.endTime - i.startTime,
                           !.results = i.results]

RunNext == recognizeAnswer \/ createGIFRun \/ Tick

SpecRun == RunInit /\ [][RunNext]_vars

\* Every HTTP request on its way through the handlers of every server.
RouteInit ==
  /\ variant \in Variants
  /\ NoTraffic
  /\ engine = NoEngine
  /\ ui = NoUI
  /\ run = NoRun
  /\ \E q \in HttpRequests :
       route = [NoRoute EXCEPT !.method = q.method, !.path = q.path,
                               !.stored = q.stored, !.layer = 1]

RouteNext == dispatch

SpecRoute == RouteInit /\ [][RouteNext]_vars

SpecWrap == WrapInit /\ [][WrapNext]_vars

\* Two requests at the WebAssembly server.
WasmInit ==
  /\ variant = "wasm"
  /\ NoTraffic
  /\ run = NoRun
  /\ route = NoRoute
  /\ engine = NoEngine
  /\ ui = NoUI

WasmNext ==
  \E r \in Requests :
    \/ engineStart(r)
    \/ engineWriteFile(r)
    \/ engineExec(r)
    \/ engineReadFile(r)
    \/ engineDeleteFile(r)

SpecWasm == WasmInit /\ [][WasmNext]_vars

\* The user at the page; the page is the same for every server.
UIInit ==
  /\ variant = "esm"
  /\ NoTraffic
  /\ run = NoRun
  /\ route = NoRoute
  /\ engine = NoEngine
  /\ ui = NoUI

UINext ==
  \/ \E f \in Clips : handleFileSelect(f)
  \/ handleDuration
  \/ \E type \in {"start", "end"}, v \in SliderValues :
       handleTimeChange(type, v)
  \/ handleConvert
  \/ \E outcome \in {"ok", "error", "network"} :
       handleConvertSettled(outcome)

SpecUI == UIInit /\ [][UINext]_vars

SpecConc == ConcInit /\ [][ConcNext]_vars

TypeOK ==
  /\ variant \in Variants
  /\ now \in Clock
  /\ \A n \in FileNames : files[n].creator \in 0..NumReq
  /\ \A r \in Requests :
       /\ pc[r] \in {"idle", "handler", "extractAudio", "recognize",
                     "createGIF", "baseGif", "addSubtitles",
                     "uploadToCloudinary", "fetchAudio", "recognizeCloud",
                     "backoff", "done"}
       /\ loc[r].i \in 0..Retries
       /\ h[r].running \subseteq Stages
       /\ resp[r].sent <=> pc[r] = "done"
       /\ resp[r].sends \in 0..1
       /\ h[r].audio \in {"", "usable", "unusable"}
       /\ h[r].foreign \subseteq FileNames


(***************************************************************************)
(* Vocabulary of the properties.                                           *)
(***************************************************************************)
\* The handler has run for request r (validation is behind it).
Handled(r) == pc[r] \notin {"idle", "handler"}

\* A field that carries a decimal string.
IsDecimal(f) == f.present /\ f.chars # <<>>

\* The window of r read as numbers.
NumStart(r) == ToNumber(req[r].startTime.chars)
NumEnd(r) == ToNumber(req[r].endTime.chars)

\* The temporary files request r created that are still there.
Intermediates(r) ==
  {n \in FileNames : /\ n.kind \in {"upload", "audio", "temp"}
                     /\ files[n].exists
                     /\ files[n].creator = r}

\* Extraction (the upload to Cloudinary, on that server) succeeded and a
\* GIF was rendered for r (both passes of the two-pass variant, where the
\* second one ran).
Rendered(r) ==
  /\ h[r].ok \cap {"extract", "upload"} # {}
  /\ "render" \in h[r].ok
  /\ "overlay" \in h[r].invoked => "overlay" \in h[r].ok

Success(r) ==
  /\ resp[r].sent
  /\ resp[r].status = 200
  /\ resp[r].gifUrl # NoName

(***************************************************************************)
(* C1.  A failure of the transcription stage never moves the request to    *)
(* the error outcome: the failure leaves the request on its way to the     *)
(* render call with transcription = null, the outer catch never receives   *)
(* a transcription error, and a request whose extraction and rendering     *)
(* succeed (an otherwise-successful request: no deletion threw either) is  *)
(* answered with a success response whose gifUrl is present and whose      *)
(* transcription is null.                                                  *)
(***************************************************************************)
C1_TranscriptionFailureTolerated ==
  \A r \in Requests :
    "transcribe" \in h[r].failed =>
      /\ h[r].resolved
      /\ loc[r].transcription = Null
      /\ "render" \in h[r].invoked
      /\ h[r].thrown \in {"", "render", "unlink"}
      /\ (resp[r].sent /\ Rendered(r) /\ ~h[r].unlinkThrew) =>
           Success(r) /\ resp[r].transcription = Null

C1_Witness ==
  \E r \in Requests :
    /\ "transcribe" \in h[r].failed
    /\ Rendered(r)
    /\ Success(r)
    /\ resp[r].transcription = Null

(***************************************************************************)
(* C2.  Every request whose endTime is numerically <= its startTime is     *)
(* rejected with a 4xx response, no stage has been invoked and no file of  *)
(* the request is in the uploads/outputs areas.                            *)
(***************************************************************************)
C2_EmptyWindowRejectedBeforeAnyArtifact ==
  \A r \in Requests :
    ( /\ Handled(r)
      /\ IsDecimal(req[r].startTime) /\ IsDecimal(req[r].endTime)
      /\ NumEnd(r) <= NumStart(r) )
    => /\ resp[r].sent
       /\ resp[r].status \in 400..499
       /\ h[r].invoked = {}
       /\ \A n \in FileNames : ~(files[n].exists /\ files[n].creator = r)

(***************************************************************************)
(* C3.  A request with a video and a window 0 <= start < end is accepted   *)
(* and advances to extraction; 'Invalid start or end time' is answered     *)
(* only when a time is missing or end <= start numerically.                *)
(***************************************************************************)
C3_ValidWindowAccepted ==
  \A r \in Requests :
    (Handled(r) /\ req[r].file) =>
      /\ ( /\ IsDecimal(req[r].startTime) /\ IsDecimal(req[r].endTime)
           /\ 0 <= NumStart(r) /\ NumStart(r) < NumEnd(r) )
         => h[r].invoked \cap {"extract", "upload"} # {}
      /\ resp[r].message = "Invalid start or end time"
         => \/ ~IsDecimal(req[r].startTime)
            \/ ~IsDecimal(req[r].endTime)
            \/ NumEnd(r) <= NumStart(r)

(***************************************************************************)
(* C4.  Cleanup invariant: once a request is in a terminal state (any      *)
(* response sent), neither its staged upload, nor its audio artifact, nor  *)
(* an intermediate GIF it created exists.                                  *)
(***************************************************************************)
C4_CleanupInvariant ==
  \A r \in Requests : resp[r].sent => Intermediates(r) = {}

(***************************************************************************)
(* C5.  When a stage after validation fails (extraction, base rendering,   *)
(* overlay), the response is a 5xx without gifUrl and every intermediate   *)
(* the request created has been deleted when it is sent (stated for the    *)
(* requests none of whose deletions threw).                                *)
(***************************************************************************)
C5_StageFailureCleansUp ==
  \A r \in Requests :
    ( /\ resp[r].sent
      /\ h[r].failed \cap {"upload", "extract", "render", "overlay"} # {}
      /\ ~h[r].unlinkThrew )
    => /\ resp[r].status \in 500..599
       /\ resp[r].gifUrl = NoName
       /\ Intermediates(r) = {}

(***************************************************************************)
(* C6.  The stages of a request are strictly sequential: at most one is    *)
(* in progress; transcription is called only after extraction completed;   *)
(* rendering is called only after the transcription stage has resolved     *)
(* (with text or with absent).                                             *)
(***************************************************************************)
C6_StagesSequential ==
  \A r \in Requests :
    /\ Cardinality(h[r].running) <= 1
    /\ "transcribe" \in h[r].invoked => h[r].ok \cap {"extract", "upload"} # {}
    /\ "render" \in h[r].invoked =>
         /\ h[r].ok \cap {"extract", "upload"} # {}
         /\ h[r].resolved
         /\ "transcribe" \notin h[r].running
    /\ "overlay" \in h[r].invoked => "render" \in h[r].ok

C6_Witness ==
  \E r \in Requests :
    /\ h[r].running = {"render"}
    /\ "transcribe" \in h[r].ok
    /\ TruthyText(loc[r].transcription)

(***************************************************************************)
(* C7, as claimed.  A failed extraction does not fail the request: the     *)
(* pipeline goes on to rendering with an absent transcript, and a          *)
(* successful render gives a success response with transcription null.     *)
(***************************************************************************)
C7_ExtractionFailureDegrades ==
  \A r \in Requests :
    "extract" \in h[r].failed =>
      /\ "render" \in h[r].invoked
      /\ loc[r].transcription = Null
      /\ (resp[r].sent /\ "render" \in h[r].ok) =>
           Success(r) /\ resp[r].transcription = Null

(***************************************************************************)
(* C7, amended.  A failed extraction is fatal to the request: neither      *)
(* transcription nor rendering is invoked, and the caller receives a 500   *)
(* response that carries the extraction error and no gifUrl.               *)
(***************************************************************************)
C7_ExtractionFailureFatal ==
  \A r \in Requests :
    "extract" \in h[r].failed =>
      /\ resp[r].sent
      /\ resp[r].status = 500
      /\ resp[r].gifUrl = NoName
      /\ resp[r].message = "extract"
      /\ h[r].invoked = {"extract"}

C7_Witness ==
  \E r \in Requests : "extract" \in h[r].failed /\ resp[r].status = 500

(***************************************************************************)
(* C8.  A deletion that throws never changes the response the stage        *)
(* outcomes determine: a request whose GIF was produced is answered with   *)
(* the success response and its gifUrl, and a request with a failed stage  *)
(* is answered with the error response.                                    *)
(***************************************************************************)
C8_CleanupFailureKeepsResponse ==
  \A r \in Requests :
    resp[r].sent =>
      /\ Rendered(r) => Success(r)
      /\ h[r].failed \cap {"upload", "extract", "render", "overlay"} # {}
           => resp[r].status = 500

(***************************************************************************)
(* C9.  Two distinct requests never choose the same output GIF name, the   *)
(* same audio artifact name or the same temporary GIF name.                *)
(***************************************************************************)
C9_ArtifactNamesUnique ==
  \A r1, r2 \in Requests :
    (r1 # r2 /\ loc[r1].outputFilename # NoName /\ loc[r2].outputFilename # NoName)
    => /\ loc[r1].outputFilename # loc[r2].outputFilename
       /\ loc[r1].outputAudioPath # loc[r2].outputAudioPath
       /\ (loc[r1].tempGifPath # NoName /\ loc[r2].tempGifPath # NoName)
            => loc[r1].tempGifPath # loc[r2].tempGifPath

(***************************************************************************)
(* C10.  No request deletes, renames or overwrites a file that a           *)
(* different request created.                                              *)
(***************************************************************************)
C10_NoForeignFileTouched ==
  \A r \in Requests : h[r].foreign = {}

(***************************************************************************)
(* C11.  getTranscription (retries = 2) makes at most retries + 1 = 3      *)
(* attempts per request, makes no attempt after a successful one, and      *)
(* after the failure of the last attempt returns null: nothing is thrown,  *)
(* the transcript is absent and the handler goes on to createGIF.          *)
(***************************************************************************)
\* The attempts getTranscription has started (its loop index is i).
Attempts(r) == IF "transcribe" \in h[r].invoked THEN loc[r].i + 1 ELSE 0

C11_BoundedRetries ==
  \A r \in Requests :
    variant = "cloud" =>
      /\ Attempts(r) <= Retries + 1
      /\ "transcribe" \in h[r].ok =>
           /\ "transcribe" \notin h[r].running
           /\ pc[r] \notin {"fetchAudio", "recognizeCloud", "backoff"}
      /\ "transcribe" \in h[r].failed =>
           /\ Attempts(r) = Retries + 1
           /\ h[r].resolved
           /\ loc[r].transcription = Null
           /\ "render" \in h[r].invoked
           /\ h[r].thrown \in {"", "render"}

C11_Witness ==
  \E r \in Requests :
    /\ variant = "cloud"
    /\ "transcribe" \in h[r].failed
    /\ Attempts(r) = Retries + 1
    /\ Success(r)
    /\ resp[r].transcription = Null

(***************************************************************************)
(* C12.  When the extracted audio file is missing or has size zero, the    *)
(* speech recognition is not called at all; the handler goes on to the     *)
(* render call with transcription = null, and a success response carries   *)
(* transcription null.                                                     *)
(***************************************************************************)
C12_UnusableAudioSkipsRecognition ==
  \A r \in Requests :
    h[r].audio = "unusable" =>
      /\ "transcribe" \notin h[r].invoked
      /\ h[r].resolved
      /\ loc[r].transcription = Null
      /\ "render" \in h[r].invoked
      /\ Success(r) => resp[r].transcription = Null

C12_Witness ==
  \E r \in Requests :
    /\ h[r].audio = "unusable"
    /\ "transcribe" \notin h[r].invoked
    /\ Success(r)
    /\ resp[r].transcription = Null

(***************************************************************************)
(* C13.  A failure caused by the caller's input (no video, no usable end   *)
(* time, an upload over the 50 MB limit) is answered with a 4xx status; a  *)
(* failed stage is answered with a 5xx status; and a 5xx status is sent    *)
(* only when something internal failed.                                    *)
(***************************************************************************)
InternalFault(r) ==
  h[r].failed # {} \/ h[r].unlinkThrew \/ h[r].thrown # ""

C13_CallerFault4xxInternalFault5xx ==
  \A r \in Requests :
    resp[r].sent =>
      /\ (req[r].err \/ ~req[r].file \/ ~IsDecimal(req[r].endTime))
           => resp[r].status \in 400..499
      /\ h[r].failed \cap {"upload", "extract", "render", "overlay"} # {}
           => resp[r].status \in 500..599
      /\ resp[r].status \in 500..599 => InternalFault(r)

(***************************************************************************)
(* C14.  Every success response carries gifUrl, transcription and a        *)
(* metadata object whose startTime and endTime are the request's window,   *)
(* whose duration is endTime - startTime and whose originalSize is the     *)
(* size of the uploaded file.                                              *)
(***************************************************************************)
C14_SuccessCarriesMetadata ==
  \A r \in Requests :
    Success(r) =>
      /\ resp[r].metadata.present
      /\ resp[r].metadata.startTime = NumStart(r)
      /\ resp[r].metadata.endTime = NumEnd(r)
      /\ resp[r].metadata.duration = NumEnd(r) - NumStart(r)
      /\ resp[r].metadata.originalSize = req[r].size

(***************************************************************************)
(* C15.  In every accepted request the extractor and the renderer are      *)
(* called with the same start time and the same duration, the start time   *)
(* is the window's start and the duration is endTime - startTime of the    *)
(* window, in centiseconds.                                                *)
(***************************************************************************)
C15_SameWindowForExtractAndRender ==
  \A r \in Requests :
    /\ \A s \in Stages :
         h[r].args[s].called =>
           /\ h[r].args[s].start = NumStart(r)
           /\ h[r].args[s].duration = NumEnd(r) - NumStart(r)
    /\ \A s, t \in Stages :
         (h[r].args[s].called /\ h[r].args[t].called)
           => h[r].args[s] = h[r].args[t]

\* The window 2.5 .. 5 went to the extractor and to the renderer.
C15_Witness ==
  \E r \in Requests :
    /\ h[r].args["extract"] = Args(250, 250)
    /\ h[r].args["render"] = Args(250, 250)

(***************************************************************************)
(* C18.  A request receives exactly one response on every path: the        *)
(* handler never writes a second response, it has written one when it      *)
(* has returned, and it calls no stage after the response.                 *)
(***************************************************************************)
C18_ExactlyOneResponse ==
  \A r \in Requests :
    /\ resp[r].sends <= 1
    /\ resp[r].sent <=> resp[r].sends = 1
    /\ pc[r] = "done" => resp[r].sends = 1
    /\ ~h[r].late

\* A response on the cleanup-failure path.
C18_Witness ==
  \E r \in Requests :
    /\ pc[r] = "done"
    /\ resp[r].sends = 1
    /\ h[r].unlinkThrew
    /\ "render" \in h[r].ok

(***************************************************************************)
(* C19.  A request moves through Validating, Extracting, Transcribing,     *)
(* Rendering, (Cleaning,) Done in this order, Errored being reachable      *)
(* from every non-terminal state: its state never goes back, a terminal    *)
(* state is never left, and when the success response is sent the          *)
(* request's staged upload and audio file have been deleted.  (Cleaning    *)
(* is synchronous: it lies inside the step that ends in Done or Errored.)  *)
(***************************************************************************)
\* The orchestrator's states in their order; Errored is terminal.
States ==
  << "Validating", "Extracting", "Transcribing", "Rendering", "Cleaning",
     "Done", "Errored" >>

Rank(st) == CHOOSE k \in 1..Len(States) : States[k] = st

StateOf(r) ==
  IF pc[r] \in {"idle", "handler"} THEN "Validating"
  ELSE IF pc[r] \in {"extractAudio", "uploadToCloudinary"} THEN "Extracting"
  ELSE IF pc[r] \in {"recognize", "fetchAudio", "recognizeCloud", "backoff"}
  THEN "Transcribing"
  ELSE IF pc[r] \in {"createGIF", "baseGif", "addSubtitles"} THEN "Rendering"
  ELSE IF resp[r].status = 200 THEN "Done"
  ELSE "Errored"

PhaseOf(r) == Rank(StateOf(r))

\* The staged upload and the audio file of r are gone.
Cleaned(r) ==
  /\ ~existsSync(files, loc[r].tempFilePath)
  /\ ~existsSync(files, loc[r].outputAudioPath)

C19_StateOrder ==
  [][\A r \in Requests :
       /\ PhaseOf(r)' >= PhaseOf(r)
       /\ StateOf(r) \in {"Done", "Errored"} => StateOf(r)' = StateOf(r)
       /\ StateOf(r)' = "Done" => Cleaned(r)']_vars

\* A request that went through every state and ended in Done.
C19_Witness ==
  \E r \in Requests :
    /\ variant \in FileVariants
    /\ StateOf(r) = "Done"
    /\ h[r].ok = {"extract", "transcribe", "render"}
    /\ Cleaned(r)

(***************************************************************************)
(* C16.  Every line the wrapping produces has at most 30 characters,       *)
(* except a line that consists of one word which is itself longer than 30  *)
(* characters.                                                             *)
(***************************************************************************)
\* The words of a string: its pieces between whitespace, in order.
RECURSIVE WordsOf(_)
WordsOf(s) ==
  LET t == TrimStart(s) IN
  IF t = <<>> THEN <<>>
  ELSE IF \A i \in 1..Len(t) : t[i] \notin Whitespace THEN <<t>>
  ELSE LET i == CHOOSE i \in 1..Len(t) :
                  t[i] \in Whitespace /\ \A j \in 1..(i - 1) : t[j] \notin Whitespace
       IN  <<SubSeq(t, 1, i - 1)>> \o WordsOf(SubSeq(t, i + 1, Len(t)))

C16_LinesWithinLimit ==
  cap.done =>
    \A k \in 1..Len(cap.lines) :
      \/ Len(cap.lines[k]) <= LineLimit
      \/ WordsOf(cap.lines[k]) = <<cap.lines[k]>>

\* A caption wrapped into a full line of two words (14 + 1 + 15 = 30
\* characters) and a line of one word of 31 characters.
C16_Witness ==
  /\ cap.done
  /\ \E k \in 1..Len(cap.lines) :
       Len(cap.lines[k]) = LineLimit /\ Len(WordsOf(cap.lines[k])) = 2
  /\ \E k \in 1..Len(cap.lines) : Len(cap.lines[k]) > LineLimit

(***************************************************************************)
(* C17.  The wrapping preserves the words: the words of the lines, taken   *)
(* line after line, are exactly the words of the text, in the same order,  *)
(* none dropped, duplicated or split.                                      *)
(***************************************************************************)
RECURSIVE WordsOfLines(_)
WordsOfLines(lines) ==
  IF lines = <<>> THEN <<>>
  ELSE WordsOf(Head(lines)) \o WordsOfLines(Tail(lines))

C17_WrappingPreservesWords ==
  cap.done =>
    /\ WordsOfLines(cap.lines) = WordsOf(cap.text)
    /\ WordsOf(cap.overlay) = WordsOf(cap.text)

\* A caption with two spaces in a row that was wrapped into three lines.
C17_Witness ==
  /\ cap.done
  /\ Len(cap.lines) >= 3
  /\ Len(WordsOf(cap.text)) >= 3
  /\ Len(Split(cap.text, Space)) > Len(WordsOf(cap.text))

(***************************************************************************)
(* C20.  A transcription attempt has a bounded time budget: whenever the   *)
(* transcription stage is waiting for the speech service, the wait ends    *)
(* (also when the service never answers), and the request goes on to       *)
(* rendering and to its response.                                          *)
(***************************************************************************)
C20_TranscriptionWaitEnds ==
  \A r \in Requests :
    ("transcribe" \in h[r].running) ~> (h[r].resolved /\ resp[r].sent)

(***************************************************************************)
(* C21.  A request is turned away as missing its video only when it        *)
(* carries neither an uploaded file nor a remote video reference (the      *)
(* youtubeUrl field): one with a reference and a window 0 <= start < end   *)
(* is processed by the pipeline.                                           *)
(***************************************************************************)
C21_RemoteReferenceAccepted ==
  \A r \in Requests :
    resp[r].sent =>
      /\ resp[r].message = "No video file uploaded"
           => ~req[r].file /\ ~req[r].youtubeUrl
      /\ ( /\ req[r].youtubeUrl /\ ~req[r].err
           /\ IsDecimal(req[r].startTime) /\ IsDecimal(req[r].endTime)
           /\ 0 <= NumStart(r) /\ NumStart(r) < NumEnd(r) )
         => h[r].invoked # {}

(***************************************************************************)
(* C22.  Outside development mode the body of a 5xx response carries       *)
(* nothing of the error that caused it: the message of the caught error    *)
(* is in the body only when the server runs in development mode.           *)
(***************************************************************************)
C22_GenericBodyOutsideDevelopment ==
  \A r \in Requests :
    (resp[r].sent /\ resp[r].status \in 500..599) =>
      (resp[r].detail # "" => development)

(***************************************************************************)
(* C23.  Rendering the same video, window and caption again gives the      *)
(* same render description: cut, frame rate, width, wrapped caption and    *)
(* overlay parameters are equal in every two runs, which differ at most    *)
(* in the name of the output.                                              *)
(***************************************************************************)
Visual(d) == [d EXCEPT !.output = NoName]

C24_NegativeStartRejected ==
  \A r \in Requests :
    (Handled(r) /\ IsDecimal(req[r].startTime) /\ NumStart(r) < 0) =>
      /\ resp[r].sent
      /\ resp[r].status \in 400..499
      /\ h[r].invoked = {}

(***************************************************************************)
(* C25.  The transcript of an answer is the first alternative of every     *)
(* result, in the order of the results, with one space between two of      *)
(* them; an answer with a result that has no alternative gives no          *)
(* transcript, and the render goes on without a text.                      *)
(***************************************************************************)
C25_TranscriptJoinsTopAlternatives ==
  run.stage = "render" =>
    IF \E k \in 1..Len(run.results) : Len(run.results[k]) = 0
    THEN /\ ~run.transcription.present
         /\ \A i \in 1..Len(run.descriptions) :
              ~run.descriptions[i].overlay.present
    ELSE /\ run.transcription.present
         /\ IF Len(run.results) = 0
            THEN run.transcription.chars = <<>>
            ELSE /\ Len(Split(run.transcription.chars, Space)) = Len(run.results)
                 /\ \A k \in 1..Len(run.results) :
                      Split(run.transcription.chars, Space)[k]
                        = Head(run.results[k])

\* Two results with two alternatives each, whose first alternatives differ
\* from each other and from the second ones.
C25_Witness ==
  /\ run.stage = "render"
  /\ Len(run.results) = 2
  /\ \A k \in 1..2 : /\ Len(run.results[k]) = 2
                     /\ run.results[k][1] # run.results[k][2]
  /\ run.results[1][1] # run.results[2][1]
  /\ run.transcription.present

(***************************************************************************)
(* C26.  The 'Route not found' handler answers only requests that no       *)
(* route of the server matches: a POST /convert is answered by the         *)
(* conversion handler and a GET of a stored file under /output by the      *)
(* static file handler, wherever in the file the handlers are registered.  *)
(***************************************************************************)
Routed ==
  [method |-> route.method, path |-> route.path, stored |-> route.stored]

C26_CatchAllOnlyUnmatched ==
  route.handler # "" =>
    /\ (route.method = "POST" /\ route.path = "/convert")
         => route.handler = "convert"
    /\ ( /\ route.method = "GET" /\ route.path = OutputPath /\ route.stored
         /\ \E k \in 1..Len(Handlers) : Handlers[k] = "static" )
         => route.handler = "static"
    /\ route.handler = "notFound"
         => ~\E k \in 1..Len(Handlers) :
               /\ Handlers[k] \in {"root", "static", "convert", "health"}
               /\ Answers(Handlers[k], Routed)

(***************************************************************************)
(* C27.  Greedy wrapping: of every two consecutive lines of the wrapped    *)
(* caption, the first word of the later line does not fit at the end of    *)
(* the earlier line: the earlier line, a space and the word are more than  *)
(* 30 characters.                                                          *)
(***************************************************************************)
C27_GreedyWrapping ==
  cap.done =>
    \A i \in 1..(Len(cap.lines) - 1) :
      WordsOf(cap.lines[i + 1]) # <<>> =>
        Len(cap.lines[i]) + 1 + Len(Head(WordsOf(cap.lines[i + 1]))) > LineLimit

(***************************************************************************)
(* C28.  The waits of the retrying transcription: the k-th wait is         *)
(* 1000 * k ms, each longer than the one before; there is one wait after   *)
(* every failed attempt but the last, and none after a successful attempt  *)
(* or after the failure of the last attempt.                               *)
(***************************************************************************)
C28_BackoffWaits ==
  \A r \in Requests :
    /\ \A k \in 1..Len(h[r].waits) :
         /\ h[r].waits[k] = 1000 * k
         /\ k > 1 => h[r].waits[k] > h[r].waits[k - 1]
    /\ Len(h[r].waits) <= Retries
    /\ Len(h[r].waits) = IF pc[r] = "backoff" THEN loc[r].i + 1 ELSE loc[r].i
    /\ Len(h[r].waits) =
         Cardinality({k \in 1..Attempts(r) :
                        k <= Retries /\ (k < Attempts(r) \/ pc[r] = "backoff")})

\* All three attempts failed: two waits, and the response has been sent.
C28_Witness ==
  \E r \in Requests :
    /\ variant = "cloud"
    /\ "transcribe" \in h[r].failed
    /\ Attempts(r) = Retries + 1
    /\ Len(h[r].waits) = Retries
    /\ resp[r].sent

(***************************************************************************)
(* C29.  The render is given a text to draw exactly when the transcript    *)
(* it is called with is a non-empty string; with null or "" there is no    *)
(* text overlay, and the two-pass variant makes the temporary GIF the      *)
(* output by renaming it, without a second pass.                           *)
(***************************************************************************)
RenderDecided(r) ==
  IF variant = "cjs" THEN "render" \in h[r].ok ELSE "render" \in h[r].invoked

NonEmptyTranscript(r) ==
  ~loc[r].transcription.null /\ loc[r].transcription.text # ""

C29_OverlayIffTranscript ==
  \A r \in Requests :
    /\ h[r].overlay => RenderDecided(r)
    /\ RenderDecided(r) => (h[r].overlay <=> NonEmptyTranscript(r))
    /\ variant = "cjs" => (h[r].overlay <=> "overlay" \in h[r].invoked)
    /\ (variant = "cjs" /\ RenderDecided(r) /\ ~NonEmptyTranscript(r)) =>
         /\ h[r].renamed
         /\ "overlay" \notin h[r].invoked
         /\ files[loc[r].outputFilename].exists
         /\ ~files[loc[r].tempGifPath].exists

\* The two-pass variant answered with the renamed GIF after the service
\* had returned no results (the transcript is "").
C29_Witness ==
  \E r \in Requests :
    /\ variant = "cjs"
    /\ Success(r)
    /\ loc[r].transcription = Text("")
    /\ h[r].renamed

C31_UploadSettlesOnce ==
  \A r \in Requests :
    variant = "cloud" =>
      /\ h[r].settles <= 1
      /\ h[r].settles = 1 <=> h[r].promise \in {"resolved", "rejected"}
      /\ h[r].timer = "fired" =>
           /\ h[r].promise = "rejected"
           /\ h[r].thrown = "Upload timeout"
           /\ resp[r].sent /\ resp[r].sends = 1
           /\ resp[r].status \in 500..599
           /\ resp[r].gifUrl = NoName
           /\ h[r].invoked = {"upload"}
      /\ h[r].timer = "cleared" =>
           /\ h[r].callback = "fired"
           /\ h[r].thrown # "Upload timeout"
      /\ h[r].callback = "fired" => h[r].timer \in {"cleared", "fired"}

\* The callback came after the timer had fired and the 500 had been sent.
C31_Witness ==
  \E r \in Requests :
    /\ variant = "cloud"
    /\ h[r].timer = "fired"
    /\ h[r].callback = "fired"
    /\ resp[r].sent

(***************************************************************************)
(* C33.  When every operation a request waits for ends, with a result or   *)
(* an error, the request gets its response: a request that has arrived is  *)
(* eventually answered.                                                    *)
(***************************************************************************)
C33_EveryRequestAnswered ==
  \A r \in Requests : (pc[r] # "idle") ~> resp[r].sent

\* A request of the ESM server answered with a GIF after extraction,
\* recognition and rendering had all succeeded.
C33_Witness ==
  \E r \in Requests :
    /\ variant = "esm"
    /\ Success(r)
    /\ h[r].ok = {"extract", "transcribe", "render"}

\* C32: at the WebAssembly server, for every interleaving of two requests,
\* the audio and the GIF written for a request are made of that request's
\* own video, and no request reads, overwrites or deletes an engine file
\* that holds another request's data.
C32_EngineFilesOwn ==
  \A r \in Requests :
    /\ engine.audio[r] \in {0, r}
    /\ engine.gif[r] \in {0, r}
    /\ ~engine.foreign[r]

\* C34: after handleTimeChange calls with slider values in [0, duration]
\* the trimmer has 0 <= startTime, endTime <= duration and
\* endTime - startTime >= 0.1, and the pair last reported through
\* onTrimPoints is the trimmer's (startTime, endTime).
C34_TrimmerWindowValid ==
  ui.moved =>
    /\ 0 <= ui.startTime
    /\ ui.endTime <= ui.duration
    /\ ui.endTime - ui.startTime >= MinWindow
    /\ ui.trimPoints = [start |-> ui.startTime, end |-> ui.endTime]

\* C35: the window handleConvert submits lies within the video selected at
\* the click: 0 <= start < end <= duration of that file.
C35_SubmittedWindowWithinVideo ==
  \A i \in DOMAIN ui.flight :
    /\ 0 <= ui.flight[i].startTime
    /\ ui.flight[i].startTime < ui.flight[i].endTime
    /\ ui.flight[i].endTime <= ClipLength[ui.flight[i].file]

\* C36: isProcessing is true exactly while a conversion request of the
\* page is in flight, whatever the way the request before it finished, and
\* at most one such request is in flight.
C36_ProcessingIffInFlight ==
  /\ ui.isProcessing <=> Len(ui.flight) > 0
  /\ Len(ui.flight) <= 1

\* A second conversion is in flight after a first one succeeded.
C36_Witness ==
  /\ ui.isProcessing
  /\ Len(ui.flight) = 1
  /\ ui.gifUrl # 0

\* C37: whenever a GIF is displayed it is the result of a conversion of
\* the file that is selected.
C37_DisplayedGifOfSelectedFile ==
  ui.gifUrl # 0 => ui.gifUrl = ui.selectedFile

=============================================================================
